---- MODULE Spec2Model ----
(***************************************************************************)
(* Model of the AI theme pipeline of llm-chat-kit: the server-side CSS     *)
(* sanitizer and generation endpoint, and the client-side proposal /       *)
(* preview / commit state machine.                                         *)
(*                                                                         *)
(* Text is a sequence of one-character strings, and every regular          *)
(* expression of the source is evaluated character by character.  A        *)
(* RegExp object created with the /g flag keeps its lastIndex between      *)
(* calls of test(); the ten DANGEROUS_PATTERNS are module-level objects of *)
(* that kind, so their lastIndex values are state of the server process.   *)
(***************************************************************************)
EXTENDS Integers, Sequences, FiniteSets, TLC

VARIABLES
    lastIndex,   \* server: DANGEROUS_PATTERNS[k].lastIndex, k \in 1..10
    lastCall,    \* history: the most recent sanitizer call and its outcome
    exchange,    \* history: the most recent request a caller sent straight to the endpoint
    lastValidation,    \* history: the direct call of validateProperty, when it is the most recent call
    settings,          \* ChatApp: chat settings (provider, model)
    themeSettings,     \* ChatApp: theme settings
    proposedTheme,     \* ChatApp: the candidate shown in the proposal
    activeTheme,       \* ChatApp: the active theme
    favoriteTheme,     \* ChatApp: the favorite theme
    isGeneratingTheme, \* ChatApp: a generation is in progress
    pending,           \* requests of generateTheme that await their continuation
    saveAsFavorite,    \* ThemeProposal: the save-as-favorite checkbox
    revertPreview,     \* ThemeProposal: the revertPreview state
    cleanupRevert,     \* ThemeProposal: revertPreview as captured by the effect cleanup
    document,          \* document: the theme style element and the fonts link
    storeActive,       \* localStorage: chat-ui-active-theme
    storeFavorite,     \* localStorage: chat-ui-favorite-theme
    unreadable,        \* localStorage: the slots whose text JSON.parse cannot read
    hour,              \* the hour of the wall clock
    currentValues,     \* useThemeSignals: currentValues['time-of-day']
    previousValues,    \* useThemeSignals: previousValuesRef.current['time-of-day']
    hasChanges,        \* useThemeSignals: hasChanges
    timer,             \* useThemeSignals: the interval of the monitoring effect
    intervals,         \* the browser: minutes of every interval set and not cleared
    previewBase,       \* history: the style element when the open proposal was opened
    previewBaseLink,   \* history: the fonts link when the open proposal was opened
    lastEvent          \* history: the handler that ran last

\* ------------------------------------------------------------------ text

UpperCase == <<"A","B","C","D","E","F","G","H","I","J","K","L","M",
               "N","O","P","Q","R","S","T","U","V","W","X","Y","Z">>
LowerCase == <<"a","b","c","d","e","f","g","h","i","j","k","l","m",
               "n","o","p","q","r","s","t","u","v","w","x","y","z">>
DigitChars == {"0","1","2","3","4","5","6","7","8","9"}

Range(f) == { f[i] : i \in DOMAIN f }

UpperSet == Range(UpperCase)
LetterSet == Range(UpperCase) \cup Range(LowerCase)
HexDigitSet == DigitChars \cup {"a","b","c","d","e","f","A","B","C","D","E","F"}

IsUpper(c) == c \in UpperSet
IsLetter(c) == c \in LetterSet
IsDigit(c) == c \in DigitChars
IsHexDigit(c) == c \in HexDigitSet
\* \s of a JavaScript regular expression, on the characters texts are built of
IsSpace(c) == c \in {" ", "\n", "\t"}
\* \w of a JavaScript regular expression
IsWordChar(c) == IsLetter(c) \/ IsDigit(c) \/ c = "_"

\* case folding of the /i flag
Lower(c) == IF IsUpper(c)
            THEN LowerCase[CHOOSE i \in 1..26 : UpperCase[i] = c]
            ELSE c

RECURSIVE Flatten(_)
Flatten(ss) == IF ss = <<>> THEN <<>> ELSE Head(ss) \o Flatten(Tail(ss))

\* the first position >= i of s holding a non-space character (Len(s)+1 if none)
RECURSIVE SkipSpaces(_, _)
SkipSpaces(s, i) == IF i <= Len(s) /\ IsSpace(s[i]) THEN SkipSpaces(s, i + 1) ELSE i

\* String.prototype.trim
RECURSIVE TrimLeft(_)
TrimLeft(s) == IF s # <<>> /\ IsSpace(Head(s)) THEN TrimLeft(Tail(s)) ELSE s
RECURSIVE TrimRight(_)
TrimRight(s) == IF s # <<>> /\ IsSpace(s[Len(s)])
                THEN TrimRight(SubSeq(s, 1, Len(s) - 1)) ELSE s
Trim(s) == TrimRight(TrimLeft(s))

\* String.prototype.includes
Includes(s, w) ==
    \E i \in 1..(Len(s) - Len(w) + 1) : SubSeq(s, i, i + Len(w) - 1) = w

CountChar(s, c) == Cardinality({ i \in 1..Len(s) : s[i] = c })

\* ---------------------------------------------- parseThemeResponse

\* the first position >= from at which w occurs in s (0 if none)
FindSeq(s, w, from) ==
    LET hits == { i \in from..(Len(s) - Len(w) + 1) : SubSeq(s, i, i + Len(w) - 1) = w }
    IN  IF hits = {} THEN 0 ELSE CHOOSE i \in hits : \A j \in hits : i <= j

\* the backquote character, which a TLA+ string cannot hold
Backquote == "<backquote>"

Fence == <<Backquote, Backquote, Backquote>>
CssFenceOpen == Fence \o <<"c","s","s">>
JsonFenceOpen == Fence \o <<"j","s","o","n">>

\* group 1 of /<fence><tag>\s*([\s\S]*?)<fence>/ on s: [found, text]
FencedBlock(s, open) ==
    LET o == FindSeq(s, open, 1)
        b == SkipSpaces(s, o + Len(open))
        c == FindSeq(s, Fence, b)
    IN  IF o = 0 \/ c = 0
        THEN [found |-> FALSE, text |-> <<>>]
        ELSE [found |-> TRUE, text |-> SubSeq(s, b, c - 1)]

CommentOpen == <<"/", "*">>
CommentClose == <<"*", "/">>
ThemeLabel == <<"T","h","e","m","e",":">>

\* /\/\*\s*Theme:\s*(.+?)\s*\*\// tried with the comment opening at i: the
\* set of <<g, e>> such that group 1 may be s[g..e].  The engine prefers the
\* largest g (greedy \s*) and then the smallest e (lazy group).
NameGroupsAt(s, i) ==
    LET j == SkipSpaces(s, i + 2)
        k0 == j + Len(ThemeLabel)
        k1 == SkipSpaces(s, k0)
    IN  IF ~(i + 1 <= Len(s) /\ SubSeq(s, i, i + 1) = CommentOpen
             /\ j + Len(ThemeLabel) - 1 <= Len(s)
             /\ SubSeq(s, j, j + Len(ThemeLabel) - 1) = ThemeLabel)
        THEN {}
        ELSE { ge \in (k0..k1) \X (k0..Len(s)) :
                 /\ ge[1] <= ge[2]
                 /\ \A x \in ge[1]..ge[2] : s[x] # "\n"
                 /\ LET n == SkipSpaces(s, ge[2] + 1)
                    IN  n + 1 <= Len(s) /\ SubSeq(s, n, n + 1) = CommentClose }

\* the theme name: group 1 of the leftmost match, trimmed; 'Generated Theme'
\* when the text has no such comment
DefaultThemeName == <<"G","e","n","e","r","a","t","e","d"," ","T","h","e","m","e">>

ThemeNameOf(css) ==
    LET opens == { i \in 1..Len(css) : NameGroupsAt(css, i) # {} }
    IN  IF opens = {} THEN DefaultThemeName
        ELSE LET i == CHOOSE x \in opens : \A y \in opens : x <= y
                 gs == NameGroupsAt(css, i)
                 ge == CHOOSE a \in gs : \A b \in gs :
                           a[1] > b[1] \/ (a[1] = b[1] /\ a[2] <= b[2])
             IN  Trim(SubSeq(css, ge[1], ge[2]))

\* A JSON document inside a reply is one element of the text: a string that
\* names the value JSON.parse returns for it.  Any other text is taken as not
\* parsing to an object with a fonts array.
JsonTwoFonts == "{\"fonts\":[Inter 700,400 | Fira-Code! 400,450 | Lora 300]}"
JsonBadWeights == "{\"fonts\":[Inter 50,400]}"
JsonNoFonts == "{\"palette\":[]}"
\* a family of 100 letters, a family of punctuation only, a family of 99
\* letters and one punctuation mark
JsonEdgeNames == "{\"fonts\":[a{100} 400 | !!! 400 | b{99}! 900,100,250]}"

JsonDocs == { JsonTwoFonts, JsonBadWeights, JsonNoFonts, JsonEdgeNames }

\* the character c, n times
Repeat(c, n) == [i \in 1..n |-> c]

\* JSON.parse(doc).fonts, when it is an array
ParsedFonts(doc) ==
    CASE doc = JsonTwoFonts ->
            << [family |-> <<"I","n","t","e","r">>, weights |-> <<700, 400>>],
               [family |-> <<"F","i","r","a","-","C","o","d","e","!">>, weights |-> <<400, 450>>],
               [family |-> <<"L","o","r","a">>, weights |-> <<300>>] >>
      [] doc = JsonBadWeights ->
            << [family |-> <<"I","n","t","e","r">>, weights |-> <<50, 400>>] >>
      [] doc = JsonEdgeNames ->
            << [family |-> Repeat("a", 100), weights |-> <<400>>],
               [family |-> <<"!","!","!">>, weights |-> <<400>>],
               [family |-> Repeat("b", 99) \o <<"!">>, weights |-> <<900, 100, 250>>] >>
      [] OTHER -> <<>>

HasFontsArray(doc) == doc \in { JsonTwoFonts, JsonBadWeights, JsonEdgeNames }

\* f.family.replace(/[^a-zA-Z0-9\s-]/g, '')
SanitizeFamily(family) ==
    SelectSeq(family, LAMBDA c : IsLetter(c) \/ IsDigit(c) \/ IsSpace(c) \/ c = "-")

FamilyMaxLen == 100

\* the checks of an entry with a family of 100 characters accepted
FontEntryOk_LengthInclusive(f) ==
    /\ \A i \in 1..Len(f.weights) : f.weights[i] >= 100 /\ f.weights[i] <= 900
    /\ Len(SanitizeFamily(f.family)) > 0
    /\ Len(SanitizeFamily(f.family)) <= FamilyMaxLen

\* the conditions under which validateFontSpecs keeps an entry
FontEntryOk(f) ==
    /\ \A i \in 1..Len(f.weights) : f.weights[i] >= 100 /\ f.weights[i] <= 900
    /\ Len(SanitizeFamily(f.family)) > 0
    /\ Len(SanitizeFamily(f.family)) < FamilyMaxLen

MaxFontFamilies == 2

\* validateFontSpecs
validateFontSpecs(fonts) ==
    LET ok == SelectSeq(fonts, FontEntryOk)
        validFonts == [i \in 1..Len(ok) |->
            [family |-> SanitizeFamily(ok[i].family),
             weights |-> SelectSeq(ok[i].weights,
                            LAMBDA w : w >= 100 /\ w <= 900 /\ w % 100 = 0)]]
    IN  SubSeq(validFonts, 1, IF Len(validFonts) < MaxFontFamilies
                              THEN Len(validFonts) ELSE MaxFontFamilies)

\* the fonts parseThemeResponse extracts (<<>> stands for undefined as well)
FontsOf(response) ==
    LET blk == FencedBlock(response, JsonFenceOpen)
        body == Trim(blk.text)
    IN  IF blk.found /\ Len(body) = 1 /\ body[1] \in JsonDocs /\ HasFontsArray(body[1])
        THEN validateFontSpecs(ParsedFonts(body[1]))
        ELSE <<>>

RootWord == <<":","r","o","o","t">>
DashDash == <<"-", "-">>

\* parseThemeResponse with the pattern of the stylesheet block accepting any
\* fence, tagged or not
parseThemeResponse_AnyFence(response) ==
    LET blk == FencedBlock(response, Fence)
        css == Trim(blk.text)
    IN  IF ~blk.found
        THEN [success |-> FALSE, error |-> "No CSS block found in response",
              name |-> <<>>, css |-> <<>>, fonts |-> <<>>]
        ELSE IF ~Includes(css, RootWord) /\ ~Includes(css, DashDash)
        THEN [success |-> FALSE,
              error |-> "CSS does not contain :root or custom properties",
              name |-> <<>>, css |-> <<>>, fonts |-> <<>>]
        ELSE [success |-> TRUE, error |-> "",
              name |-> ThemeNameOf(css), css |-> css, fonts |-> FontsOf(response)]

\* parseThemeResponse
parseThemeResponse(response) ==
    LET blk == FencedBlock(response, CssFenceOpen)
        css == Trim(blk.text)
    IN  IF ~blk.found
        THEN [success |-> FALSE, error |-> "No CSS block found in response",
              name |-> <<>>, css |-> <<>>, fonts |-> <<>>]
        ELSE IF ~Includes(css, RootWord) /\ ~Includes(css, DashDash)
        THEN [success |-> FALSE,
              error |-> "CSS does not contain :root or custom properties",
              name |-> <<>>, css |-> <<>>, fonts |-> <<>>]
        ELSE [success |-> TRUE, error |-> "",
              name |-> ThemeNameOf(css), css |-> css, fonts |-> FontsOf(response)]

\* ------------------------------------------------------ input texts

\* --color-bg: #fff;
DeclValid == <<"-","-","c","o","l","o","r","-","b","g",":"," ","#","f","f","f",";">>
\* --color-fg: red;
DeclBadValue == <<"-","-","c","o","l","o","r","-","f","g",":"," ","r","e","d",";">>
\* --hack: 1px;
DeclUnknown == <<"-","-","h","a","c","k",":"," ","1","p","x",";">>
\* --custom-hack: url(evil.com);
DeclUrl == <<"-","-","c","u","s","t","o","m","-","h","a","c","k",":"," ","u","r","l","(","e","v","i","l",".","c","o","m",")",";">>
\* --font-family: -moz-binding;
DeclMozBinding == <<"-","-","f","o","n","t","-","f","a","m","i","l","y",":"," ","-","m","o","z","-","b","i","n","d","i","n","g",";">>
\* --font-size-md: 1rem;
DeclSize == <<"-","-","f","o","n","t","-","s","i","z","e","-","m","d",":"," ","1","r","e","m",";">>
\* :root { --color-bg: #fff;
TextOpenBrace == <<":","r","o","o","t"," ","{"," ","-","-","c","o","l","o","r","-","b","g",":"," ","#","f","f","f",";">>
\* --font-family: 'Inter;
DeclOpenSingleQuote == <<"-","-","f","o","n","t","-","f","a","m","i","l","y",":"," ","'","I","n","t","e","r",";">>
\* --font-family: "Inter;
DeclOpenDoubleQuote == <<"-","-","f","o","n","t","-","f","a","m","i","l","y",":"," ","\"","I","n","t","e","r",";">>
\* --font-family: 'Inter';
DeclQuoted == <<"-","-","f","o","n","t","-","f","a","m","i","l","y",":"," ","'","I","n","t","e","r","'",";">>
\* :root { --hack: 1px;
TextOpenBraceUnknown == <<":","r","o","o","t"," ","{"," ","-","-","h","a","c","k",":"," ","1","p","x",";">>
\* javascript:
TokJavascript == <<"j","a","v","a","s","c","r","i","p","t",":">>
\* @import 
TokImport == <<"@","i","m","p","o","r","t"," ">>
\* expression(
TokExpression == <<"e","x","p","r","e","s","s","i","o","n","(">>
\* data:
TokData == <<"d","a","t","a",":">>
\* URL(x)
TokUrlUpper == <<"U","R","L","(","x",")">>

SafeFragments == { DeclValid, DeclBadValue, DeclUnknown }
DangerousFragments == { DeclUrl, DeclMozBinding, TokJavascript, TokImport, TokExpression, TokData, TokUrlUpper }

\* texts with an unclosed brace or quote, and one with closed quotes
StructureTexts ==
    { TextOpenBrace, TextOpenBraceUnknown, DeclOpenSingleQuote, DeclOpenDoubleQuote,
      DeclQuoted }

\* The texts the sanitizer is called on: the empty text, every fragment
\* alone, every dangerous fragment next to a valid declaration, a valid
\* declaration next to an invalid one, two valid declarations around one
\* outside the whitelist, and the texts with unclosed braces or quotes.
SampleTexts ==
    { <<>> } \cup SafeFragments \cup DangerousFragments
    \cup { DeclValid \o <<" ">> \o d : d \in DangerousFragments }
    \cup { DeclValid \o <<" ">> \o DeclBadValue }
    \cup { DeclValid \o <<" ">> \o DeclUnknown \o <<" ">> \o DeclSize }
    \cup StructureTexts

\* the reply of the model: a fenced css block around the text
FencedCss(css) == CssFenceOpen \o <<"\n">> \o css \o <<"\n">> \o Fence

FencedJson(doc) == JsonFenceOpen \o <<"\n", doc, "\n">> \o Fence

\* Sorry, I cannot do that.
ReplyNoFence == <<"S","o","r","r","y",".">>
\* /* Theme: Dusk */ :root { --color-bg: #123456; --font-size-md: 1rem; }
CssDusk == <<"/","*"," ","T","h","e","m","e",":"," ","D","u","s","k"," ","*","/","\n",":","r","o","o","t"," ","{"," ","-","-","c","o","l","o","r","-","b","g",":"," ","#","1","2","3","4","5","6",";"," ","-","-","f","o","n","t","-","s","i","z","e","-","m","d",":"," ","1","r","e","m",";"," ","}">>
\* :root { --color-fg: #abc; }
CssPlain == <<":","r","o","o","t"," ","{"," ","-","-","c","o","l","o","r","-","f","g",":"," ","#","a","b","c",";"," ","}">>

ReplyDusk == FencedCss(CssDusk)
ReplyPlainWithFonts == FencedCss(CssPlain) \o <<"\n">> \o FencedJson(JsonTwoFonts)
ReplyBadFonts == FencedCss(CssPlain) \o <<"\n">> \o FencedJson(JsonBadWeights)
ReplyEdgeFonts == FencedCss(CssPlain) \o <<"\n">> \o FencedJson(JsonEdgeNames)
\* a fenced block without a language tag
ReplyUntagged == Fence \o <<"\n">> \o CssPlain \o <<"\n">> \o Fence

\* an untagged block of prose, then the stylesheet in a css block
ReplyProseThenCss ==
    Fence \o <<"\n">> \o <<"d","u","s","k"," ","p","a","l","e","t","t","e">> \o <<"\n">> \o Fence \o <<"\n">> \o FencedCss(CssPlain)

\* the CSS texts the model's replies carry in a fenced block
ReplyTexts ==
    { <<>>, DeclValid, DeclUnknown, DeclUrl, TokData,
      DeclValid \o <<" ">> \o DeclUrl, DeclValid \o <<" ">> \o DeclBadValue,
      DeclUrl \o <<" ">> \o DeclUrl,
      TextOpenBrace \o <<" ">> \o DeclUnknown }

\* the replies the model may give to a request sent to the endpoint
Replies ==
    { FencedCss(t) : t \in ReplyTexts }
    \cup { ReplyNoFence, ReplyDusk, ReplyPlainWithFonts, ReplyBadFonts, ReplyEdgeFonts,
            ReplyUntagged, ReplyProseThenCss }

NoSignals == [present |-> FALSE, ids |-> {}]
EmptySignals == [present |-> TRUE, ids |-> {}]
OneSignal == [present |-> TRUE, ids |-> {"time-of-day"}]

Body(provider, model, signals, useGoogleFonts) ==
    [malformed |-> FALSE, provider |-> provider, model |-> model,
     signals |-> signals, useGoogleFonts |-> useGoogleFonts]

\* the request bodies sent to the endpoint: a complete one, with and without
\* the fonts preference, one per missing or empty field, two with several
\* defects, and one that is not JSON
Bodies ==
    { Body("ollama", "llama3", OneSignal, FALSE),
      Body("ollama", "llama3", OneSignal, TRUE),
      Body("", "llama3", OneSignal, FALSE),
      Body("ollama", "", OneSignal, FALSE),
      Body("ollama", "llama3", EmptySignals, FALSE),
      Body("ollama", "llama3", NoSignals, FALSE),
      Body("", "llama3", EmptySignals, FALSE),
      Body("ollama", "", NoSignals, FALSE),
      [malformed |-> TRUE, provider |-> "", model |-> "",
       signals |-> NoSignals, useGoogleFonts |-> FALSE] }

LlmOutcomes == { [ok |-> FALSE, text |-> <<>>] } \cup { [ok |-> TRUE, text |-> r] : r \in Replies }

\* every CSS text that reaches the sanitizer
CssTexts == SampleTexts \cup { parseThemeResponse(r).css : r \in Replies }

\* parseThemeResponse of every reply, computed once
ReplyTable == <<>> @@ [r \in Replies |-> parseThemeResponse(r)]

ParsedReply(text) ==
    IF text \in DOMAIN ReplyTable THEN ReplyTable[text] ELSE parseThemeResponse(text)

\* ------------------------------------------------- DANGEROUS_PATTERNS

\* Each pattern is a literal word, optionally followed by \s* and one
\* character: /javascript\s*:/ is [word |-> "javascript", tail |-> ":"].
DANGEROUS_PATTERNS == <<
    [word |-> <<"j","a","v","a","s","c","r","i","p","t">>,         tail |-> ":"],
    [word |-> <<"e","x","p","r","e","s","s","i","o","n">>,         tail |-> "("],
    [word |-> <<"@","i","m","p","o","r","t">>,                     tail |-> ""],
    [word |-> <<"u","r","l">>,                                     tail |-> "("],
    [word |-> <<"b","e","h","a","v","i","o","r">>,                 tail |-> ":"],
    [word |-> <<"-","m","o","z","-","b","i","n","d","i","n","g">>, tail |-> ""],
    [word |-> <<"d","a","t","a">>,                                 tail |-> ":"],
    [word |-> <<"-","o","-","l","i","n","k">>,                     tail |-> ""],
    [word |-> <<"-","o","-","l","i","n","k","-","s","o","u","r","c","e">>, tail |-> ""],
    [word |-> <<"b","i","n","d","i","n","g">>,                     tail |-> ":"] >>

NumPatterns == Len(DANGEROUS_PATTERNS)

\* 0 when pattern p does not match s starting at position i (1-based);
\* otherwise the position of the last character of the match, which is the
\* value JavaScript stores in lastIndex (the 0-based index after the match).
MatchEnd(p, s, i) ==
    LET w == p.word
        j == i + Len(w)
        n == SkipSpaces(s, j)
    IN  IF j - 1 > Len(s) \/ \E k \in 1..Len(w) : Lower(s[i + k - 1]) # w[k]
        THEN 0
        ELSE IF p.tail = "" THEN j - 1
        ELSE IF n <= Len(s) /\ s[n] = p.tail THEN n
        ELSE 0

\* RegExp.prototype.test of a /g pattern whose lastIndex is li: the search
\* starts at index li; a match stores its end in lastIndex, a failure stores 0.
RegExpTest(p, s, li) ==
    LET starts == { i \in (li + 1)..Len(s) : MatchEnd(p, s, i) > 0 }
    IN  IF starts = {}
        THEN [matched |-> FALSE, lastIndex |-> 0]
        ELSE LET i == CHOOSE x \in starts : \A y \in starts : x <= y
             IN  [matched |-> TRUE, lastIndex |-> MatchEnd(p, s, i)]

\* pattern.test(s) of every pattern on every CSS text from every lastIndex,
\* computed once
TestTable ==
    <<>> @@ [s \in CssTexts |->
        <<>> @@ [k \in 1..NumPatterns |->
            <<>> @@ [i \in 1..(Len(s) + 1) |->
                RegExpTest(DANGEROUS_PATTERNS[k], s, i - 1)]]]

PatternTest(k, s, li) ==
    IF s \in DOMAIN TestTable /\ li <= Len(s)
    THEN TestTable[s][k][li + 1]
    ELSE RegExpTest(DANGEROUS_PATTERNS[k], s, li)

\* checkDangerousPatterns: the patterns are tried in order from pattern k on,
\* idx is the lastIndex of each; the first one that matches throws.
\* threw = 0: returned normally; threw = k: threw "forbidden pattern" for k.
RECURSIVE CheckFrom(_, _, _)
RECURSIVE CheckStep(_, _, _, _)

\* pattern k was tested with result r
CheckStep(css, idx, k, r) ==
    IF r.matched
    THEN [threw |-> k, idx |-> [idx EXCEPT ![k] = r.lastIndex]]
    ELSE CheckFrom(css, [idx EXCEPT ![k] = r.lastIndex], k + 1)

CheckFrom(css, idx, k) ==
    IF k > NumPatterns
    THEN [threw |-> 0, idx |-> idx]
    ELSE CheckStep(css, idx, k, PatternTest(k, css, idx[k]))

checkDangerousPatterns(css, idx) == CheckFrom(css, idx, 1)

\* ------------------------------------------------------ whitelist

\* THEMEABLE_COLORS: the properties PROPERTY_VALIDATORS gives colorValidator
THEMEABLE_COLORS == {
    <<"-","-","c","o","l","o","r","-","b","g">>,
    <<"-","-","c","o","l","o","r","-","f","g">>,
    <<"-","-","c","o","l","o","r","-","b","o","r","d","e","r">>,
    <<"-","-","c","o","l","o","r","-","m","u","t","e","d">>,
    <<"-","-","c","o","l","o","r","-","u","s","e","r","-","b","g">>,
    <<"-","-","c","o","l","o","r","-","a","s","s","i","s","t","a","n","t","-","b","g">>,
    <<"-","-","c","o","l","o","r","-","a","c","c","e","n","t","-","b","l","u","e">>,
    <<"-","-","c","o","l","o","r","-","a","c","c","e","n","t","-","b","l","u","e","-","l","i","g","h","t">>,
    <<"-","-","c","o","l","o","r","-","a","c","c","e","n","t","-","o","r","a","n","g","e">>,
    <<"-","-","c","o","l","o","r","-","a","c","c","e","n","t","-","y","e","l","l","o","w">> }

\* the properties PROPERTY_VALIDATORS gives fontFamilyValidator
FontFamilyProps == {
    <<"-","-","f","o","n","t","-","f","a","m","i","l","y">>,
    <<"-","-","f","o","n","t","-","f","a","m","i","l","y","-","m","o","n","o">> }

\* the properties PROPERTY_VALIDATORS gives sizeValidator
FontSizeProps == {
    <<"-","-","f","o","n","t","-","s","i","z","e","-","x","s">>,
    <<"-","-","f","o","n","t","-","s","i","z","e","-","s","m">>,
    <<"-","-","f","o","n","t","-","s","i","z","e","-","m","d">>,
    <<"-","-","f","o","n","t","-","s","i","z","e","-","l","g">>,
    <<"-","-","f","o","n","t","-","s","i","z","e","-","x","l">> }

\* the properties PROPERTY_VALIDATORS gives fontWeightValidator
FontWeightProps == {
    <<"-","-","f","o","n","t","-","w","e","i","g","h","t","-","n","o","r","m","a","l">>,
    <<"-","-","f","o","n","t","-","w","e","i","g","h","t","-","m","e","d","i","u","m">>,
    <<"-","-","f","o","n","t","-","w","e","i","g","h","t","-","s","e","m","i","b","o","l","d">>,
    <<"-","-","f","o","n","t","-","w","e","i","g","h","t","-","b","o","l","d">> }

THEMEABLE_TYPOGRAPHY == FontFamilyProps \cup FontSizeProps \cup FontWeightProps

ALLOWED_PROPERTIES == THEMEABLE_COLORS \cup THEMEABLE_TYPOGRAPHY

\* HEX_COLOR_PATTERN without the length alternatives: '#' and any hex digits
colorValidator_AnyLength(value) ==
    /\ Len(value) >= 2
    /\ value[1] = "#"
    /\ \A i \in 2..Len(value) : IsHexDigit(value[i])

\* HEX_COLOR_PATTERN  /^#([0-9a-fA-F]{3}|[0-9a-fA-F]{6}|[0-9a-fA-F]{8})$/
colorValidator(value) ==
    /\ Len(value) \in {4, 7, 9}
    /\ value[1] = "#"
    /\ \A i \in 2..Len(value) : IsHexDigit(value[i])

EndsWith(s, w) == Len(s) >= Len(w) /\ SubSeq(s, Len(s) - Len(w) + 1, Len(s)) = w

\* SIZE_PATTERN  /^[\d.]+(?:rem|em|px)$/
sizeValidator(value) ==
    \E u \in { <<"r","e","m">>, <<"e","m">>, <<"p","x">> } :
        /\ EndsWith(value, u)
        /\ Len(value) > Len(u)
        /\ \A i \in 1..(Len(value) - Len(u)) : IsDigit(value[i]) \/ value[i] = "."

\* FONT_WEIGHT_PATTERN  /^[1-9]00$/
fontWeightValidator(value) ==
    /\ Len(value) = 3
    /\ IsDigit(value[1]) /\ value[1] # "0"
    /\ value[2] = "0" /\ value[3] = "0"

\* FONT_FAMILY_PATTERN  /^[a-zA-Z\s\-,'"]+$/
fontFamilyValidator(value) ==
    /\ Len(value) > 0
    /\ \A i \in 1..Len(value) :
          IsLetter(value[i]) \/ IsSpace(value[i]) \/ value[i] \in {"-", ",", "'", "\""}

\* PROPERTY_VALIDATORS[property](value)
PropertyValidator(property, value) ==
    IF property \in THEMEABLE_COLORS THEN colorValidator(value)
    ELSE IF property \in FontFamilyProps THEN fontFamilyValidator(value)
    ELSE IF property \in FontSizeProps THEN sizeValidator(value)
    ELSE fontWeightValidator(value)

\* A diagnostic message: kind says which message of the source it is,
\* pat / property / value are the parts the source interpolates into it.
Msg(kind, pat, property, value) ==
    [kind |-> kind, pat |-> pat, property |-> property, value |-> value]

NoError == Msg("null", 0, <<>>, <<>>)

\* validateProperty with the shape check ahead of the whitelist check
validateProperty_ShapeFirst(property, value) ==
    IF ~PropertyValidator(property, value)
    THEN Msg("Invalid value", 0, property, value)
    ELSE IF property \notin ALLOWED_PROPERTIES
    THEN Msg("not in the whitelist", 0, property, <<>>)
    ELSE NoError

\* validateProperty: null, 'Property ... is not in the whitelist' or
\* 'Invalid value ... for property ...'
validateProperty(property, value) ==
    IF property \notin ALLOWED_PROPERTIES
    THEN Msg("not in the whitelist", 0, property, <<>>)
    ELSE IF ~PropertyValidator(property, value)
    THEN Msg("Invalid value", 0, property, value)
    ELSE NoError

\* ------------------------------------------- parseCustomProperties

IsNameChar(c) == IsWordChar(c) \/ c = "-"

\* the last position of the run of [\w-] characters that starts at i
RECURSIVE NameEnd(_, _)
NameEnd(s, i) == IF i + 1 <= Len(s) /\ IsNameChar(s[i + 1]) THEN NameEnd(s, i + 1) ELSE i

\* the first position >= i holding ';' (Len(s)+1 if none)
RECURSIVE FindSemi(_, _)
FindSemi(s, i) == IF i <= Len(s) /\ s[i] # ";" THEN FindSemi(s, i + 1) ELSE i

\* /(--[\w-]+)\s*:\s*([^;]+);/ tried at position i
DeclAt(s, i) ==
    IF ~(i + 2 <= Len(s) /\ s[i] = "-" /\ s[i + 1] = "-" /\ IsNameChar(s[i + 2]))
    THEN [ok |-> FALSE, property |-> <<>>, value |-> <<>>, next |-> i + 1]
    ELSE LET e == NameEnd(s, i + 2)
             c == SkipSpaces(s, e + 1)
             semi == FindSemi(s, c + 1)
         IN  IF c <= Len(s) /\ s[c] = ":" /\ semi <= Len(s) /\ semi >= c + 2
             THEN [ok |-> TRUE,
                   property |-> SubSeq(s, i, e),
                   value |-> Trim(SubSeq(s, c + 1, semi - 1)),
                   next |-> semi + 1]
             ELSE [ok |-> FALSE, property |-> <<>>, value |-> <<>>, next |-> i + 1]

RECURSIVE ParseFrom(_, _)
ParseFrom(s, i) ==
    IF i > Len(s) THEN <<>>
    ELSE LET d == DeclAt(s, i)
         IN  IF d.ok
             THEN <<[property |-> d.property, value |-> d.value]>> \o ParseFrom(s, d.next)
             ELSE ParseFrom(s, i + 1)

\* the declarations of every CSS text, computed once
PropertiesTable == <<>> @@ [s \in CssTexts |-> ParseFrom(s, 1)]

\* parseCustomProperties: the (property, value) pairs in input order
parseCustomProperties(css) ==
    IF css \in DOMAIN PropertiesTable THEN PropertiesTable[css] ELSE ParseFrom(css, 1)

\* --------------------------------------- validateCSS / sanitizeCSS

RECURSIVE JoinLines(_)
JoinLines(ls) ==
    IF ls = <<>> THEN <<>>
    ELSE IF Len(ls) = 1 THEN ls[1]
    ELSE ls[1] \o <<"\n">> \o JoinLines(Tail(ls))

\* the template "  ${property}: ${value};"
DeclLine(d) == <<" ", " ">> \o d.property \o <<":", " ">> \o d.value \o <<";">>

\* the template ":root {\n${validProperties.join('\n')}\n}", or '' when nothing is valid
RootBlock(valid) ==
    IF valid = <<>> THEN <<>>
    ELSE <<":","r","o","o","t"," ","{","\n">> \o JoinLines(valid) \o <<"\n","}">>

\* The outcome of a sanitizer call.  threw = k > 0: the call threw the
\* 'forbidden pattern' error of pattern k and the other fields are empty.
Outcome(threw, css, removed, sanitized, valid, warnings, errors, idx) ==
    [threw |-> threw, css |-> css, removedProperties |-> removed,
     sanitizedValues |-> sanitized, valid |-> valid, warnings |-> warnings,
     errors |-> errors, idx |-> idx]

Thrown(k, idx) == Outcome(k, <<>>, <<>>, <<>>, FALSE, <<>>, <<>>, idx)

IsBad(d) == validateProperty(d.property, d.value) # NoError

\* the result of sanitizeCSS if the rejected declarations were listed in
\* removedProperties only, without an entry in sanitizedValues
SanitizeResult_Unrecorded(chk, good, bad) ==
    IF chk.threw > 0
    THEN Thrown(chk.threw, chk.idx)
    ELSE Outcome(0,
             RootBlock([i \in 1..Len(good) |-> DeclLine(good[i])]),
             [i \in 1..Len(bad) |-> bad[i].property],
             <<>>, TRUE, <<>>, <<>>, chk.idx)

\* the result of sanitizeCSS: chk is the outcome of the dangerous-pattern
\* check, good and bad are the declarations kept and removed
SanitizeResult(chk, good, bad) ==
    IF chk.threw > 0
    THEN Thrown(chk.threw, chk.idx)
    ELSE Outcome(0,
             RootBlock([i \in 1..Len(good) |-> DeclLine(good[i])]),
             [i \in 1..Len(bad) |-> bad[i].property],
             [i \in 1..Len(bad) |->
                 [property |-> bad[i].property, original |-> bad[i].value,
                  reason |-> validateProperty(bad[i].property, bad[i].value)]],
             TRUE, <<>>, <<>>, chk.idx)

SanitizeProperties(chk, properties) ==
    SanitizeResult(chk, SelectSeq(properties, LAMBDA d : ~IsBad(d)),
                   SelectSeq(properties, IsBad))

\* the loop of sanitizeCSS without the value check: a whitelisted property
\* is kept whatever its value
SanitizeProperties_NoValueCheck(chk, properties) ==
    SanitizeResult(chk,
                   SelectSeq(properties, LAMBDA d : d.property \in ALLOWED_PROPERTIES),
                   SelectSeq(properties, LAMBDA d : d.property \notin ALLOWED_PROPERTIES))

sanitizeCSS_NoValueCheck(css, idx) ==
    SanitizeProperties_NoValueCheck(checkDangerousPatterns(css, idx),
                                    parseCustomProperties(css))

\* sanitizeCSS
sanitizeCSS(css, idx) ==
    SanitizeProperties(checkDangerousPatterns(css, idx), parseCustomProperties(css))

\* the structural checks of validateCSS
StructureErrors(css) ==
    (IF CountChar(css, "{") # CountChar(css, "}")
     THEN <<Msg("Unbalanced braces in CSS", 0, <<>>, <<>>)>> ELSE <<>>)
    \o (IF CountChar(css, "'") % 2 # 0
        THEN <<Msg("Unclosed single quote in CSS", 0, <<>>, <<>>)>> ELSE <<>>)
    \o (IF CountChar(css, "\"") % 2 # 0
        THEN <<Msg("Unclosed double quote in CSS", 0, <<>>, <<>>)>> ELSE <<>>)

ValidateWarnings(properties, bad) ==
    (IF properties = <<>>
     THEN <<Msg("No valid CSS custom properties found", 0, <<>>, <<>>)>> ELSE <<>>)
    \o [i \in 1..Len(bad) |-> validateProperty(bad[i].property, bad[i].value)]

\* the result of validateCSS if a warning made the stylesheet invalid
ValidateResult_WarningsInvalidate(chk, errors, warnings) ==
    IF chk.threw > 0
    THEN Outcome(0, <<>>, <<>>, <<>>, FALSE, <<>>,
                 <<Msg("CSS contains forbidden pattern", chk.threw, <<>>, <<>>)>>,
                 chk.idx)
    ELSE Outcome(0, <<>>, <<>>, <<>>, errors = <<>> /\ warnings = <<>>, warnings, errors,
                 chk.idx)

ValidateResult(chk, errors, warnings) ==
    IF chk.threw > 0
    THEN Outcome(0, <<>>, <<>>, <<>>, FALSE, <<>>,
                 <<Msg("CSS contains forbidden pattern", chk.threw, <<>>, <<>>)>>,
                 chk.idx)
    ELSE Outcome(0, <<>>, <<>>, <<>>, errors = <<>>, warnings, errors, chk.idx)

ValidateProperties(css, chk, properties) ==
    ValidateResult(chk, StructureErrors(css),
                   ValidateWarnings(properties, SelectSeq(properties, IsBad)))

\* validateCSS: never throws; a forbidden pattern is reported as the only error
validateCSS(css, idx) ==
    ValidateProperties(css, checkDangerousPatterns(css, idx), parseCustomProperties(css))

ProcessResult(validation, sanitization) ==
    IF sanitization.threw > 0
    THEN Thrown(sanitization.threw, sanitization.idx)
    ELSE Outcome(0, sanitization.css, sanitization.removedProperties,
                 sanitization.sanitizedValues, validation.valid,
                 validation.warnings, validation.errors, sanitization.idx)

ProcessValidated(css, validation) ==
    ProcessResult(validation, sanitizeCSS(css, validation.idx))

\* processCSSForTheme: validateCSS, then sanitizeCSS on the same text; the
\* second call starts from the lastIndex values the first one left.
processCSSForTheme(css, idx) == ProcessValidated(css, validateCSS(css, idx))

\* ------------------------------------- POST /api/theme/generate

NoTheme == [present |-> FALSE, name |-> <<>>, css |-> <<>>, fonts |-> <<>>]
NoLint == [present |-> FALSE, valid |-> FALSE, warnings |-> <<>>, errors |-> <<>>]

\* c.json({success: false, error, lintResults?}, status); pat is the pattern
\* the forbidden-pattern message names (0 when the message names none)
Failure(status, error, pat, lint, idx) ==
    [status |-> status, success |-> FALSE, error |-> error, pat |-> pat,
     theme |-> NoTheme, lintResults |-> lint, idx |-> idx]

LintOf(o) == [present |-> TRUE, valid |-> o.valid, warnings |-> o.warnings, errors |-> o.errors]

\* the end of the handler without its check for an empty sanitized result
RespondProcessed_NoEmptyCheck(parsed, processedCss) ==
    IF processedCss.threw > 0
    THEN Failure(400, "CSS security check failed: CSS contains forbidden pattern",
                 processedCss.threw, NoLint, processedCss.idx)
    ELSE [status |-> 200, success |-> TRUE, error |-> "", pat |-> 0,
          theme |-> [present |-> TRUE,
                     name |-> IF parsed.name = <<>> THEN DefaultThemeName
                              ELSE parsed.name,
                     css |-> processedCss.css,
                     fonts |-> parsed.fonts],
          lintResults |-> LintOf(processedCss),
          idx |-> processedCss.idx]

\* the end of the handler if a stylesheet that validateCSS found invalid
\* were refused
RespondProcessed_BlocksInvalid(parsed, processedCss) ==
    IF processedCss.threw > 0
    THEN Failure(400, "CSS security check failed: CSS contains forbidden pattern",
                 processedCss.threw, NoLint, processedCss.idx)
    ELSE IF Trim(processedCss.css) = <<>> \/ ~processedCss.valid
    THEN Failure(400, "Generated CSS had no valid theme properties", 0,
                 LintOf(processedCss), processedCss.idx)
    ELSE [status |-> 200, success |-> TRUE, error |-> "", pat |-> 0,
          theme |-> [present |-> TRUE,
                     name |-> IF parsed.name = <<>> THEN DefaultThemeName
                              ELSE parsed.name,
                     css |-> processedCss.css,
                     fonts |-> parsed.fonts],
          lintResults |-> LintOf(processedCss),
          idx |-> processedCss.idx]

\* the end of the handler: the reply parsed and its CSS went through
\* processCSSForTheme
RespondProcessed(parsed, processedCss) ==
    IF processedCss.threw > 0
    THEN Failure(400, "CSS security check failed: CSS contains forbidden pattern",
                 processedCss.threw, NoLint, processedCss.idx)
    ELSE IF Trim(processedCss.css) = <<>>
    THEN Failure(400, "Generated CSS had no valid theme properties", 0,
                 LintOf(processedCss), processedCss.idx)
    ELSE [status |-> 200, success |-> TRUE, error |-> "", pat |-> 0,
          theme |-> [present |-> TRUE,
                     name |-> IF parsed.name = <<>> THEN DefaultThemeName
                              ELSE parsed.name,
                     css |-> processedCss.css,
                     fonts |-> parsed.fonts],
          lintResults |-> LintOf(processedCss),
          idx |-> processedCss.idx]

\* the handler if it sanitized whatever the parser returned
RespondParsed_AlwaysSanitizes(parsed, idx) ==
    RespondProcessed(parsed, processCSSForTheme(parsed.css, idx))

\* the handler once parseThemeResponse has returned
RespondParsed(parsed, idx) ==
    IF ~parsed.success \/ parsed.css = <<>>
    THEN Failure(400, parsed.error, 0, NoLint, idx)
    ELSE RespondProcessed(parsed, processCSSForTheme(parsed.css, idx))

\* the outer catch if it let the error through: the framework answers 500
\* with a body that is not the structured failure
Caught_Rethrown(message, idx) == Failure(500, "", 0, NoLint, idx)

\* the outer catch of the handler: {success: false, error: message}, 500
Caught(message, idx) == Failure(500, message, 0, NoLint, idx)

\* The handler of POST /generate.  body is the request body (malformed: the
\* body is not JSON; signals.present = FALSE: the body has no signals field);
\* enabled is what isProviderEnabled(provider) answers; llm is what
\* generateText does (ok = FALSE: it throws); idx is the lastIndex of the
\* DANGEROUS_PATTERNS when the request arrives.
themeRoutePostGenerate(body, enabled, llm, idx) ==
    IF body.malformed
    THEN Caught("Unexpected token in JSON", idx)
    ELSE IF ~body.signals.present
    \* console.log evaluates Object.keys(signals) before any validation
    THEN Caught("Cannot convert undefined or null to object", idx)
    ELSE IF body.provider = "" \/ body.model = ""
    THEN Failure(400, "Missing required fields: provider and model", 0, NoLint, idx)
    ELSE IF body.signals.ids = {}
    THEN Failure(400, "At least one signal is required", 0, NoLint, idx)
    ELSE IF ~enabled
    THEN Failure(400, "Provider is not enabled or configured", 0, NoLint, idx)
    ELSE IF ~llm.ok
    THEN Caught("LLM call failed", idx)
    ELSE RespondParsed(ParsedReply(llm.text), idx)

\* ------------------------------------------ client: theme service

\* The document: the children of document.head that carry an id, in document
\* order.  A style element is [id, textContent], a link element is
\* [id, rel, href].
THEME_STYLE_ID == "ai-generated-theme"
GOOGLE_FONTS_LINK_ID == "ai-theme-google-fonts"

EmptyDocument == <<>>

\* document.getElementById(id): the position of the first element with that
\* id in document order (0 stands for null)
getElementById(doc, id) ==
    LET hits == { i \in 1..Len(doc) : doc[i].id = id }
    IN  IF hits = {} THEN 0 ELSE CHOOSE i \in hits : \A j \in hits : i <= j

\* element.remove() of the element at position i
RemoveAt(doc, i) == SubSeq(doc, 1, i - 1) \o SubSeq(doc, i + 1, Len(doc))

\* if (existing) existing.remove()
RemoveIfFound(doc, i) == IF i = 0 THEN doc ELSE RemoveAt(doc, i)

\* document.head.appendChild(el)
appendChild(doc, el) == Append(doc, el)

removeThemeCSS(doc) == RemoveIfFound(doc, getElementById(doc, THEME_STYLE_ID))

\* applyThemeCSS without its call of removeThemeCSS
applyThemeCSS_NoRemove(doc, css) ==
    appendChild(doc, [id |-> THEME_STYLE_ID, textContent |-> css])

applyThemeCSS(doc, css) ==
    appendChild(removeThemeCSS(doc), [id |-> THEME_STYLE_ID, textContent |-> css])

NoStyle == [present |-> FALSE, css |-> <<>>]
NoLink == [present |-> FALSE, href |-> <<>>]

\* what the element found at position i holds
StyleAt(doc, i) == IF i = 0 THEN NoStyle ELSE [present |-> TRUE, css |-> doc[i].textContent]
LinkAt(doc, i) == IF i = 0 THEN NoLink ELSE [present |-> TRUE, href |-> doc[i].href]

\* getAppliedThemeCSS: the textContent of the theme style element, or null
getAppliedThemeCSS(doc) == StyleAt(doc, getElementById(doc, THEME_STYLE_ID))

\* the theme fonts link a lookup by id finds
AppliedFontsLink(doc) == LinkAt(doc, getElementById(doc, GOOGLE_FONTS_LINK_ID))

\* weights.sort((a, b) => a - b)
RECURSIVE SortAscending(_)
SortAscending(ws) ==
    IF ws = <<>> THEN <<>>
    ELSE LET m == CHOOSE x \in Range(ws) : \A y \in Range(ws) : x <= y
             k == CHOOSE i \in 1..Len(ws) : ws[i] = m
         IN  <<m>> \o SortAscending(SubSeq(ws, 1, k - 1) \o SubSeq(ws, k + 1, Len(ws)))

\* encodeURIComponent(family).replace(/%20/g, '+') on the characters a
\* sanitized family name can hold
EncodeChar(c) ==
    CASE c = " " -> <<"+">>
      [] c = "\n" -> <<"%", "0", "A">>
      [] c = "\t" -> <<"%", "0", "9">>
      [] OTHER -> <<c>>

EncodeFamily(family) == Flatten([i \in 1..Len(family) |-> EncodeChar(family[i])])

\* buildGoogleFontsUrl: the family=...:wght@... parameters of the URL, in order
buildGoogleFontsUrl(fonts) ==
    [i \in 1..Len(fonts) |->
        [family |-> EncodeFamily(fonts[i].family),
         wght |-> SortAscending(fonts[i].weights)]]

\* buildGoogleFontsUrl sorts each weights array in place: the theme object
\* whose fonts were loaded holds the sorted arrays from then on
WeightsSortedInPlace(theme) ==
    [theme EXCEPT !.fonts = [i \in 1..Len(theme.fonts) |->
        [theme.fonts[i] EXCEPT !.weights = SortAscending(theme.fonts[i].weights)]]]

removeGoogleFonts(doc) == RemoveIfFound(doc, getElementById(doc, GOOGLE_FONTS_LINK_ID))

loadGoogleFonts(doc, fonts) ==
    IF fonts = <<>> THEN doc
    ELSE appendChild(removeGoogleFonts(doc),
                     [id |-> GOOGLE_FONTS_LINK_ID, rel |-> "stylesheet",
                      href |-> buildGoogleFontsUrl(fonts)])

applyTheme(doc, theme) ==
    IF Len(theme.fonts) > 0
    THEN loadGoogleFonts(applyThemeCSS(doc, theme.css), theme.fonts)
    ELSE applyThemeCSS(doc, theme.css)

\* resetTheme without the removeGoogleFonts call
resetTheme_KeepsLink(doc) == removeThemeCSS(doc)

resetTheme(doc) == removeGoogleFonts(removeThemeCSS(doc))

\* The function previewTheme returns, as data: set = FALSE is null;
\* had / previousCSS is what getAppliedThemeCSS returned when the preview began.
NoRevert == [set |-> FALSE, had |-> FALSE, previousCSS |-> <<>>]

\* calling the function previewTheme returned (a null one is not called)
RunRevert(doc, revert) ==
    IF ~revert.set THEN doc
    ELSE IF revert.had /\ revert.previousCSS # <<>>
    THEN applyThemeCSS(doc, revert.previousCSS)
    ELSE resetTheme(doc)

\* the returned function closes over previousCSS = getAppliedThemeCSS()
RevertTo(previous) ==
    [set |-> TRUE, had |-> previous.present, previousCSS |-> previous.css]

previewTheme(doc, theme) ==
    [doc |-> applyTheme(doc, theme), revert |-> RevertTo(getAppliedThemeCSS(doc))]

\* themeApi.generate: what generateTheme sees of the server's response; a
\* response that is not ok keeps only its error
ClientView(response) ==
    IF response.status # 200
    THEN [success |-> FALSE, error |-> response.error, theme |-> NoTheme]
    ELSE [success |-> response.success, error |-> response.error,
          theme |-> response.theme]

NetworkFailure == [success |-> FALSE, error |-> "Network error", theme |-> NoTheme]

\* ----------------------------------------- client: signal monitor

Hours == 0..23

\* getPeriod with noon counted as morning
getPeriod_NoonIsMorning(h) ==
    IF h >= 6 /\ h <= 12 THEN "morning"
    ELSE IF h >= 12 /\ h < 15 THEN "midday"
    ELSE IF h >= 15 /\ h < 18 THEN "afternoon"
    ELSE IF h >= 18 /\ h < 21 THEN "evening"
    ELSE "night"

\* TimeOfDaySignal.getPeriod
getPeriod(h) ==
    IF h >= 6 /\ h < 12 THEN "morning"
    ELSE IF h >= 12 /\ h < 15 THEN "midday"
    ELSE IF h >= 15 /\ h < 18 THEN "afternoon"
    ELSE IF h >= 18 /\ h < 21 THEN "evening"
    ELSE "night"

\* TimeOfDaySignal.getValue at the given hour of the clock (normalized is
\* hour / 24 and label is derived from hour and period)
getValue(h) == [present |-> TRUE, hour |-> h, period |-> getPeriod(h)]

NoValue == [present |-> FALSE, hour |-> 0, period |-> "none"]

\* hasTimeOfDayChanged comparing the hours instead of the periods
hasTimeOfDayChanged_ByHour(previous, current) ==
    IF ~previous.present THEN TRUE ELSE previous.hour # current.hour

hasTimeOfDayChanged(previous, current) ==
    IF ~previous.present THEN TRUE ELSE previous.period # current.period

\* hasSignificantChange for the one registered signal, 'time-of-day'
hasSignificantChange(previous, current) == hasTimeOfDayChanged(previous, current)

\* CHECK_INTERVALS, in minutes
CHECK_INTERVALS == [high |-> 5, medium |-> 15, low |-> 30]

CheckFrequencies == { "high", "medium", "low" }

NoTimer == [active |-> FALSE, minutes |-> 0]

defaultThemeSettings ==
    [autoGenerate |-> TRUE, checkFrequency |-> "medium",
     useGoogleFonts |-> FALSE, preferDarkMode |-> FALSE]

defaultSettings == [provider |-> "ollama", model |-> ""]

\* ----------------------------------------------------- server state

ZeroIndex == [k \in 1..NumPatterns |-> 0]

SanitizerFns == { "checkDangerousPatterns", "validateCSS", "sanitizeCSS", "processCSSForTheme" }

\* a direct call of checkDangerousPatterns as an outcome
CheckOutcome(chk) ==
    IF chk.threw > 0 THEN Thrown(chk.threw, chk.idx)
    ELSE Outcome(0, <<>>, <<>>, <<>>, TRUE, <<>>, <<>>, chk.idx)

\* the call fn(css) made when the patterns' lastIndex values are idx
Apply(fn, css, idx) ==
    CASE fn = "checkDangerousPatterns" -> CheckOutcome(checkDangerousPatterns(css, idx))
      [] fn = "validateCSS" -> validateCSS(css, idx)
      [] fn = "sanitizeCSS" -> sanitizeCSS(css, idx)
      [] OTHER -> processCSSForTheme(css, idx)

\* what the caller observes of an outcome: everything but the lastIndex values
Observed(o) == [f \in (DOMAIN o) \ {"idx"} |-> o[f]]

\* no direct call of validateProperty has been made yet
NoValidation == [called |-> FALSE, property |-> <<>>, value |-> <<>>, result |-> NoError]

NoCall == [fn |-> "none", input |-> <<>>, out |-> Observed(Thrown(0, ZeroIndex))]

NoExchange == [handled |-> FALSE, enabled |-> FALSE,
               body |-> [malformed |-> TRUE, provider |-> "", model |-> "",
                         signals |-> [present |-> FALSE, ids |-> {}],
                         useGoogleFonts |-> FALSE],
               llm |-> [ok |-> FALSE, text |-> <<>>],
               response |-> Observed(Failure(500, "", 0, NoLint, ZeroIndex))]

serverVars == <<lastIndex, lastCall, exchange, lastValidation>>

appVars == <<settings, themeSettings, proposedTheme, activeTheme, favoriteTheme,
             isGeneratingTheme, pending>>

proposalVars == <<saveAsFavorite, revertPreview, cleanupRevert>>

storeVars == <<storeActive, storeFavorite, unreadable>>

\* the slots of localStorage the page reads at startup
Slots == {"active", "favorite", "settings"}


monitorVars == <<hour, currentValues, previousValues, hasChanges, timer, intervals>>

themeVars == <<appVars, proposalVars, document, storeVars, previewBase, previewBaseLink>>

clientVars == <<themeVars, monitorVars, lastEvent>>

vars == <<serverVars, clientVars>>

\* setInterval(callback, minutes): one more recurring timer in the browser
setInterval(table, minutes) == Append(table, minutes)

\* clearInterval that leaves the timer running
clearInterval_Leaking(table, handle) == table

\* clearInterval(interval), called by the cleanup of the monitoring effect
\* with the interval its run had set (no cleanup exists when none was set)
clearInterval(table, handle) ==
    IF ~handle.active THEN table
    ELSE LET hits == { i \in 1..Len(table) : table[i] = handle.minutes }
         IN  IF hits = {} THEN table
             ELSE LET i == CHOOSE j \in hits : \A k \in hits : j <= k
                  IN  SubSeq(table, 1, i - 1) \o SubSeq(table, i + 1, Len(table))

\* The page as it is once ChatApp has mounted at hour h with the given
\* localStorage content: state initializers, the restore effect, and the
\* monitoring effect with its first check.
MountedState(h, app, ts, active, favorite) ==
    [settings |-> app, themeSettings |-> ts, activeTheme |-> active,
     favoriteTheme |-> favorite,
     document |-> IF active.present THEN applyTheme(EmptyDocument, active)
                  ELSE EmptyDocument,
     currentValues |-> getValue(h),
     previousValues |-> IF ts.autoGenerate THEN getValue(h) ELSE NoValue,
     hasChanges |-> ts.autoGenerate,
     timer |-> IF ts.autoGenerate
               THEN [active |-> TRUE, minutes |-> CHECK_INTERVALS[ts.checkFrequency]]
               ELSE NoTimer,
     intervals |-> IF ts.autoGenerate
                   THEN setInterval(<<>>, CHECK_INTERVALS[ts.checkFrequency])
                   ELSE <<>>]

Mounted(h, app, ts, active, favorite) ==
    LET m == MountedState(h, app, ts, active, favorite)
    IN  /\ settings = m.settings
        /\ themeSettings = m.themeSettings
        /\ proposedTheme = NoTheme
        /\ activeTheme = m.activeTheme
        /\ favoriteTheme = m.favoriteTheme
        /\ isGeneratingTheme = FALSE
        /\ pending = <<>>
        /\ saveAsFavorite = TRUE
        /\ revertPreview = NoRevert
        /\ cleanupRevert = NoRevert
        /\ document = m.document
        /\ storeActive = active
        /\ storeFavorite = favorite
        /\ unreadable = {}
        /\ hour = h
        /\ currentValues = m.currentValues
        /\ previousValues = m.previousValues
        /\ hasChanges = m.hasChanges
        /\ timer = m.timer
        /\ intervals = m.intervals
        /\ previewBase = NoStyle
        /\ previewBaseLink = NoLink

\* the hour at which the page is first opened in the behaviours of the
\* theme pipeline; the monitor's behaviours start at every hour
OpeningHour == 9

InitAt(h) ==
    /\ lastIndex = ZeroIndex
    /\ lastCall = NoCall
    /\ lastValidation = NoValidation
    /\ exchange = NoExchange
    /\ Mounted(h, defaultSettings, defaultThemeSettings, NoTheme, NoTheme)
    /\ lastEvent = "mount"

Init == InitAt(OpeningHour)

\* the call fn(css) ended with outcome o
Returned(fn, css, o) ==
    /\ lastIndex' = o.idx
    /\ lastCall' = [fn |-> fn, input |-> css, out |-> Observed(o)]
    /\ lastValidation' = NoValidation
    /\ UNCHANGED <<exchange, clientVars>>

\* a direct call of one of the sanitizer's exported functions
Call(fn, css) == Returned(fn, css, Apply(fn, css, lastIndex))

CallCheckDangerousPatterns == \E css \in SampleTexts : Call("checkDangerousPatterns", css)
CallValidateCSS == \E css \in SampleTexts : Call("validateCSS", css)
CallSanitizeCSS == \E css \in SampleTexts : Call("sanitizeCSS", css)
CallProcessCSSForTheme == \E css \in SampleTexts : Call("processCSSForTheme", css)

NextSanitizer ==
    \/ CallCheckDangerousPatterns
    \/ CallValidateCSS
    \/ CallSanitizeCSS
    \/ CallProcessCSSForTheme

SpecSanitizer == Init /\ [][NextSanitizer]_vars

\* the handler answered r
Responded(body, enabled, llm, r) ==
    /\ lastIndex' = r.idx
    /\ exchange' = [handled |-> TRUE, enabled |-> enabled, body |-> body,
                    llm |-> llm, response |-> Observed(r)]
    /\ UNCHANGED <<lastCall, lastValidation, clientVars>>

\* the endpoint handles a request of any client
HandleGenerate ==
    \E body \in Bodies, enabled \in BOOLEAN, llm \in LlmOutcomes :
        Responded(body, enabled, llm,
                  themeRoutePostGenerate(body, enabled, llm, lastIndex))

NextEndpoint == HandleGenerate

SpecEndpoint == Init /\ [][NextEndpoint]_vars

\* ----------------------------------------------- validateProperty calls

\* the values validateProperty is called with: hex colors of the three
\* accepted lengths, hex digits of other lengths, a non-hex digit, hex
\* without '#', named colors, color functions, values with surrounding
\* white space or a trailing ';', the empty value, a weight, a font stack,
\* sizes with each unit, numbers without a unit or with another one, and
\* strings of digits and dots that are not a number before a unit
SampleValues == {
    <<"#","a","b","c">>,
    <<"#","a","a","b","b","c","c">>,
    <<"#","a","a","b","b","c","c","d","d">>,
    <<"#","A","B","C","D","E","F">>,
    <<"#","1","2","3","4","5","6","7","8">>,
    <<"#","a","b">>,
    <<"#","a","b","c","d">>,
    <<"#","a","b","c","d","e">>,
    <<"#","a","b","c","d","e","f","a">>,
    <<"#","a","a","b","b","c","c","d","d","e">>,
    <<"#","g","g","g">>,
    <<"#">>,
    <<"a","b","c">>,
    <<"a","a","b","b","c","c">>,
    <<"r","e","d">>,
    <<"t","r","a","n","s","p","a","r","e","n","t">>,
    <<"r","g","b","(","0",",","0",",","0",")">>,
    <<"h","s","l","(","0",",","0","%",",","0","%",")">>,
    <<"#","f","f","f"," ">>,
    <<" ","#","f","f","f">>,
    <<"#","f","f","f","\n">>,
    <<"#","f","f","f",";">>,
    <<>>,
    <<"1","r","e","m">>,
    <<"4","0","0">>,
    <<"I","n","t","e","r",","," ","s","a","n","s","-","s","e","r","i","f">>,
    <<"1","6","p","x">>,
    <<"1",".","5","e","m">>,
    <<"0",".","8","7","5","r","e","m">>,
    <<".","5","r","e","m">>,
    <<"1",".","2",".","3","p","x">>,
    <<".",".","p","x">>,
    <<".","p","x">>,
    <<"p","x">>,
    <<"1","6">>,
    <<"5","0","%">>,
    <<"1"," ","r","e","m">>,
    <<"1","r","e","m","x">>,
    <<"1","e","2","p","x">> }

\* property names outside the whitelist
UnlistedProperties == {
    <<"-","-","h","a","c","k">>,
    <<"-","-","c","o","l","o","u","r","-","b","g">>,
    <<"-","-","c","o","l","o","r","-","b","g","-","2">>,
    <<"c","o","l","o","r","-","b","g">>,
    <<"-","-","C","O","L","O","R","-","B","G">>,
    <<"-","-","f","o","n","t">>,
    <<"b","a","c","k","g","r","o","u","n","d">> }

SampleProperties == ALLOWED_PROPERTIES \cup UnlistedProperties

\* a direct call of validateProperty
CallValidateProperty ==
    \E property \in SampleProperties, value \in SampleValues :
        /\ lastValidation' = [called |-> TRUE, property |-> property, value |-> value,
                              result |-> validateProperty(property, value)]
        /\ lastCall' = NoCall
        /\ UNCHANGED <<lastIndex, exchange, clientVars>>

\* the one-declaration stylesheet "${property}: ${value};"
DeclText(property, value) == property \o <<":", " ">> \o value \o <<";">>

\* the declarations sanitizeCSS is called with one at a time: every property
\* outside the whitelist and one property of each validator, each with a
\* value of every shape
DeclProperties == UnlistedProperties \cup {
    <<"-","-","c","o","l","o","r","-","b","g">>, <<"-","-","f","o","n","t","-","f","a","m","i","l","y">>, <<"-","-","f","o","n","t","-","s","i","z","e","-","m","d">>, <<"-","-","f","o","n","t","-","w","e","i","g","h","t","-","b","o","l","d">> }
DeclValues == { <<"#","a","a","b","b","c","c">>, <<"r","e","d">>, <<"1","r","e","m">>, <<"4","0","0">>, <<"I","n","t","e","r",","," ","s","a","n","s","-","s","e","r","i","f">> }

\* a direct call of sanitizeCSS on a one-declaration stylesheet
CallSanitizeDeclaration ==
    \E property \in DeclProperties, value \in DeclValues :
        Call("sanitizeCSS", DeclText(property, value))

NextValidator ==
    \/ CallValidateProperty
    \/ CallSanitizeDeclaration

SpecValidator == Init /\ [][NextValidator]_vars

\* ------------------------------------------------- client actions

Models == { "", "llama3" }

\* the model replies behind the requests of the page: two themes, one of
\* them with fonts, a reply without a CSS block, and a reply whose only
\* declaration carries url(
ClientReplies == { ReplyDusk, ReplyPlainWithFonts, ReplyNoFence, FencedCss(DeclUrl) }

ClientLlmOutcomes ==
    { [ok |-> FALSE, text |-> <<>>] } \cup { [ok |-> TRUE, text |-> r] : r \in ClientReplies }

\* handleSettingsChange({model}): the user picks a model in the settings panel
SelectModel ==
    \E m \in Models :
        /\ m # settings.model
        /\ settings' = [settings EXCEPT !.model = m]
        /\ lastEvent' = "selectModel"
        /\ UNCHANGED <<serverVars, themeSettings, proposedTheme, activeTheme,
                       favoriteTheme, isGeneratingTheme, pending, proposalVars,
                       document, storeVars, previewBase, previewBaseLink, monitorVars>>

\* the body generateTheme sends; signalValues always holds 'time-of-day'
RequestBody ==
    [malformed |-> FALSE, provider |-> settings.provider, model |-> settings.model,
     signals |-> [present |-> TRUE, ids |-> {"time-of-day"}],
     useGoogleFonts |-> themeSettings.useGoogleFonts]

\* generateTheme up to its await, started by a button that is never disabled
SurpriseMe_Unguarded ==
    /\ IF settings.provider = "" \/ settings.model = ""
       THEN UNCHANGED <<isGeneratingTheme, pending>>
       ELSE /\ isGeneratingTheme' = TRUE
            /\ pending' = Append(pending, [answered |-> FALSE, body |-> RequestBody,
                                           response |-> NetworkFailure])
    /\ lastEvent' = "surpriseMe"
    /\ UNCHANGED <<serverVars, settings, themeSettings, proposedTheme, activeTheme,
                   favoriteTheme, proposalVars, document, storeVars, previewBase, previewBaseLink,
                   monitorVars>>

\* generateTheme up to its await, started by the Surprise Me button, which
\* is disabled while isGeneratingTheme
SurpriseMe ==
    /\ ~isGeneratingTheme
    /\ IF settings.provider = "" \/ settings.model = ""
       THEN UNCHANGED <<isGeneratingTheme, pending>>
       ELSE /\ isGeneratingTheme' = TRUE
            /\ pending' = Append(pending, [answered |-> FALSE, body |-> RequestBody,
                                           response |-> NetworkFailure])
    /\ lastEvent' = "surpriseMe"
    /\ UNCHANGED <<serverVars, settings, themeSettings, proposedTheme, activeTheme,
                   favoriteTheme, proposalVars, document, storeVars, previewBase, previewBaseLink,
                   monitorVars>>

\* the handler answered request i of the page with r; themeApi.generate
\* reads the response
Answered(i, r) ==
    /\ lastIndex' = r.idx
    /\ pending' = [pending EXCEPT ![i] =
                      [@ EXCEPT !.answered = TRUE, !.response = ClientView(r)]]

\* the endpoint handles a request of the page
ServeRequest ==
    \E i \in 1..Len(pending), enabled \in BOOLEAN, llm \in ClientLlmOutcomes :
        /\ ~pending[i].answered
        /\ Answered(i, themeRoutePostGenerate(pending[i].body, enabled, llm, lastIndex))
        /\ lastEvent' = "serveRequest"
        /\ UNCHANGED <<lastCall, exchange, lastValidation, settings, themeSettings, proposedTheme,
                       activeTheme, favoriteTheme, isGeneratingTheme, proposalVars,
                       document, storeVars, previewBase, previewBaseLink, monitorVars>>

\* fetch fails: themeApi.generate catches and returns success = false
NetworkError ==
    \E i \in 1..Len(pending) :
        /\ ~pending[i].answered
        /\ pending' = [pending EXCEPT ![i] =
                          [@ EXCEPT !.answered = TRUE, !.response = NetworkFailure]]
        /\ lastEvent' = "networkError"
        /\ UNCHANGED <<serverVars, settings, themeSettings, proposedTheme, activeTheme,
                       favoriteTheme, isGeneratingTheme, proposalVars, document,
                       storeVars, previewBase, previewBaseLink, monitorVars>>

WithoutItem(q, i) == SubSeq(q, 1, i - 1) \o SubSeq(q, i + 1, Len(q))

\* ThemeProposal's effect for a new theme prop.  On mount the cleanup it
\* registers closes over revertPreview = null; when the theme prop of the
\* mounted proposal changes, the cleanup of the previous run is called first
\* and the new cleanup closes over the revertPreview of the render that ran
\* the effect, which is the one the previous preview returned.
ShowProposal(newTheme) ==
    LET mounted == proposedTheme.present
        d0 == IF mounted THEN RunRevert(document, cleanupRevert) ELSE document
        pv == previewTheme(d0, newTheme)
    IN  /\ proposedTheme' = WeightsSortedInPlace(newTheme)
        /\ document' = pv.doc
        /\ revertPreview' = pv.revert
        /\ cleanupRevert' = IF mounted THEN revertPreview ELSE NoRevert
        /\ saveAsFavorite' = IF mounted THEN saveAsFavorite ELSE TRUE
        /\ previewBase' = IF mounted THEN previewBase ELSE getAppliedThemeCSS(document)
        /\ previewBaseLink' = IF mounted THEN previewBaseLink ELSE AppliedFontsLink(document)

HasTheme_Unchecked(response) == TRUE

\* generateTheme: if (response.success && response.theme)
HasTheme(response) == response.success /\ response.theme.present

\* generateTheme after its await, clearing the flag only when a theme arrived
ReceiveResponse_ClearsOnTheme ==
    \E i \in 1..Len(pending) :
        /\ pending[i].answered
        /\ pending' = WithoutItem(pending, i)
        /\ isGeneratingTheme' = (isGeneratingTheme /\ ~HasTheme(pending[i].response))
        /\ IF HasTheme(pending[i].response)
           THEN ShowProposal(pending[i].response.theme)
           ELSE UNCHANGED <<proposedTheme, document, proposalVars, previewBase, previewBaseLink>>
        /\ lastEvent' = IF pending[i].response.success THEN "proposed" ELSE "generationFailed"
        /\ UNCHANGED <<serverVars, settings, themeSettings, activeTheme, favoriteTheme,
                       storeVars, monitorVars>>

\* generateTheme after its await
ReceiveResponse ==
    \E i \in 1..Len(pending) :
        /\ pending[i].answered
        /\ pending' = WithoutItem(pending, i)
        /\ isGeneratingTheme' = FALSE
        /\ IF HasTheme(pending[i].response)
           THEN ShowProposal(pending[i].response.theme)
           ELSE UNCHANGED <<proposedTheme, document, proposalVars, previewBase, previewBaseLink>>
        /\ lastEvent' = IF pending[i].response.success THEN "proposed" ELSE "generationFailed"
        /\ UNCHANGED <<serverVars, settings, themeSettings, activeTheme, favoriteTheme,
                       storeVars, monitorVars>>

\* the checkbox of the proposal
ToggleSaveAsFavorite ==
    /\ proposedTheme.present
    /\ saveAsFavorite' = ~saveAsFavorite
    /\ lastEvent' = "toggleFavorite"
    /\ UNCHANGED <<serverVars, appVars, revertPreview, cleanupRevert, document,
                   storeVars, previewBase, previewBaseLink, monitorVars>>

FavoriteAfterApply_Always(theme, save, current) == theme

\* handleApplyTheme: the favorite is overwritten only if (saveAsFavorite)
FavoriteAfterApply(theme, save, current) == IF save THEN theme ELSE current

\* ThemeProposal.handleApply, ChatApp.handleApplyTheme, then the proposal
\* unmounts and the cleanup of its effect runs
Approve ==
    /\ proposedTheme.present
    /\ activeTheme' = proposedTheme
    /\ storeActive' = proposedTheme
    /\ favoriteTheme' = FavoriteAfterApply(proposedTheme, saveAsFavorite, favoriteTheme)
    /\ storeFavorite' = FavoriteAfterApply(proposedTheme, saveAsFavorite, storeFavorite)
    /\ unreadable' = unreadable \ (IF saveAsFavorite THEN {"active", "favorite"} ELSE {"active"})
    /\ proposedTheme' = NoTheme
    /\ document' = RunRevert(applyTheme(document, proposedTheme), cleanupRevert)
    /\ revertPreview' = NoRevert
    /\ cleanupRevert' = NoRevert
    /\ saveAsFavorite' = TRUE
    /\ previewBase' = NoStyle
    /\ previewBaseLink' = NoLink
    /\ lastEvent' = "approved"
    /\ UNCHANGED <<serverVars, settings, themeSettings, isGeneratingTheme, pending,
                   monitorVars>>

Dismiss_KeepsCandidate ==
    /\ proposedTheme.present
    /\ proposedTheme' = NoTheme
    /\ activeTheme' = proposedTheme
    /\ storeActive' = proposedTheme
    /\ unreadable' = unreadable \ {"active"}
    /\ document' = RunRevert(RunRevert(document, revertPreview), cleanupRevert)
    /\ revertPreview' = NoRevert
    /\ cleanupRevert' = NoRevert
    /\ saveAsFavorite' = TRUE
    /\ previewBase' = previewBase
    /\ previewBaseLink' = previewBaseLink
    /\ lastEvent' = "dismissed"
    /\ UNCHANGED <<serverVars, settings, themeSettings, favoriteTheme,
                   isGeneratingTheme, pending, storeFavorite, monitorVars>>

\* ThemeProposal.handleDismiss, ChatApp.handleDismissTheme, then the proposal
\* unmounts and the cleanup of its effect runs
Dismiss ==
    /\ proposedTheme.present
    /\ proposedTheme' = NoTheme
    /\ document' = RunRevert(RunRevert(document, revertPreview), cleanupRevert)
    /\ revertPreview' = NoRevert
    /\ cleanupRevert' = NoRevert
    /\ saveAsFavorite' = TRUE
    /\ previewBase' = previewBase
    /\ previewBaseLink' = previewBaseLink
    /\ lastEvent' = "dismissed"
    /\ UNCHANGED <<serverVars, settings, themeSettings, activeTheme, favoriteTheme,
                   isGeneratingTheme, pending, storeVars, monitorVars>>

\* handleRestoreFavorite without the storage.saveActiveTheme call
RestoreFavorite_NotPersisted ==
    /\ favoriteTheme.present /\ ~isGeneratingTheme
    /\ document' = applyTheme(document, favoriteTheme)
    /\ activeTheme' = favoriteTheme
    /\ lastEvent' = "restoreFavorite"
    /\ UNCHANGED <<serverVars, settings, themeSettings, proposedTheme, favoriteTheme,
                   isGeneratingTheme, pending, proposalVars, storeVars,
                   previewBase, previewBaseLink, monitorVars>>

\* handleRestoreFavorite; the button is shown when there is a favorite and
\* disabled while generating
RestoreFavorite ==
    /\ favoriteTheme.present /\ ~isGeneratingTheme
    /\ document' = applyTheme(document, favoriteTheme)
    /\ activeTheme' = favoriteTheme
    /\ storeActive' = favoriteTheme
    /\ unreadable' = unreadable \ {"active"}
    /\ lastEvent' = "restoreFavorite"
    /\ UNCHANGED <<serverVars, settings, themeSettings, proposedTheme, favoriteTheme,
                   isGeneratingTheme, pending, proposalVars, storeFavorite,
                   previewBase, previewBaseLink, monitorVars>>

\* handleResetTheme; the button is shown when there is an active theme and
\* disabled while generating
ResetTheme ==
    /\ activeTheme.present /\ ~isGeneratingTheme
    /\ document' = resetTheme(document)
    /\ activeTheme' = NoTheme
    /\ storeActive' = NoTheme
    /\ unreadable' = unreadable \ {"active"}
    /\ lastEvent' = "resetTheme"
    /\ UNCHANGED <<serverVars, settings, themeSettings, proposedTheme, favoriteTheme,
                   isGeneratingTheme, pending, proposalVars, storeFavorite,
                   previewBase, previewBaseLink, monitorVars>>

\* safeGetItem handing on whatever the slot last held, readable or not
safeGetItem_Unguarded(slot, content, absent) == content

\* safeGetItem: the parsed content of a slot, null when the slot is missing
\* or JSON.parse throws on its text
safeGetItem(slot, content, absent) == IF slot \in unreadable THEN absent ELSE content

\* storage.getActiveTheme(), storage.getFavoriteTheme()
getActiveTheme == safeGetItem("active", storeActive, NoTheme)
getFavoriteTheme == safeGetItem("favorite", storeFavorite, NoTheme)
\* storage.getThemeSettings() || defaultThemeSettings; the slot holds the
\* settings of the page, which are saved at every change
getThemeSettings == safeGetItem("settings", themeSettings, defaultThemeSettings)

\* the page is loaded again: the document and the component state are
\* rebuilt from localStorage; a response still awaited is never delivered
Reload ==
    LET m == MountedState(hour, settings, getThemeSettings, getActiveTheme, getFavoriteTheme)
    IN  /\ proposedTheme' = NoTheme
        /\ themeSettings' = m.themeSettings
        /\ activeTheme' = m.activeTheme
        /\ favoriteTheme' = m.favoriteTheme
        /\ isGeneratingTheme' = FALSE
        /\ pending' = <<>>
        /\ saveAsFavorite' = TRUE
        /\ revertPreview' = NoRevert
        /\ cleanupRevert' = NoRevert
        /\ document' = m.document
        /\ currentValues' = m.currentValues
        /\ previousValues' = m.previousValues
        /\ hasChanges' = m.hasChanges
        /\ timer' = m.timer
        /\ intervals' = m.intervals
        /\ previewBase' = NoStyle
        /\ previewBaseLink' = NoLink
        /\ lastEvent' = "mount"
        /\ UNCHANGED <<serverVars, settings, storeVars, hour>>

NextClient ==
    \/ SelectModel
    \/ SurpriseMe
    \/ ServeRequest
    \/ NetworkError
    \/ ReceiveResponse
    \/ ToggleSaveAsFavorite
    \/ Approve
    \/ Dismiss
    \/ RestoreFavorite
    \/ ResetTheme
    \/ Reload

SpecClient == Init /\ [][NextClient]_vars

\* ------------------------------------------------ monitor actions

\* checkForChanges keeping the old snapshot when it reports no change
checkForChanges_KeepWhenUnchanged(h, previous) ==
    [currentValues |-> getValue(h),
     previousValues |-> IF hasSignificantChange(previous, getValue(h))
                        THEN getValue(h) ELSE previous,
     hasChanges |-> hasSignificantChange(previous, getValue(h))]

\* checkForChanges at the current hour: [currentValues, previousValues, hasChanges]
checkForChanges(h, previous) ==
    [currentValues |-> getValue(h), previousValues |-> getValue(h),
     hasChanges |-> hasSignificantChange(previous, getValue(h))]

\* the monitoring effect if disabling also forgot the snapshot
RestartMonitor_Clearing(ts) ==
    IF ts.autoGenerate
    THEN LET c == checkForChanges(hour, previousValues)
         IN  /\ timer' = [active |-> TRUE, minutes |-> CHECK_INTERVALS[ts.checkFrequency]]
             /\ intervals' = setInterval(clearInterval(intervals, timer),
                                         CHECK_INTERVALS[ts.checkFrequency])
             /\ currentValues' = c.currentValues
             /\ previousValues' = c.previousValues
             /\ hasChanges' = c.hasChanges
    ELSE /\ timer' = NoTimer
         /\ intervals' = clearInterval(intervals, timer)
         /\ previousValues' = NoValue
         /\ hasChanges' = FALSE
         /\ UNCHANGED currentValues

\* the monitoring effect of useThemeSignals after checkFrequency or enabled
\* changed: the old interval is cleared and, when enabled, a new interval is
\* set and the first check runs at once
RestartMonitor(ts) ==
    IF ts.autoGenerate
    THEN LET c == checkForChanges(hour, previousValues)
         IN  /\ timer' = [active |-> TRUE, minutes |-> CHECK_INTERVALS[ts.checkFrequency]]
             /\ intervals' = setInterval(clearInterval(intervals, timer),
                                         CHECK_INTERVALS[ts.checkFrequency])
             /\ currentValues' = c.currentValues
             /\ previousValues' = c.previousValues
             /\ hasChanges' = c.hasChanges
    ELSE /\ timer' = NoTimer
         /\ intervals' = clearInterval(intervals, timer)
         /\ UNCHANGED <<currentValues, previousValues, hasChanges>>

\* an hour passes on the wall clock
Tick ==
    /\ hour' = (hour + 1) % 24
    /\ lastEvent' = "tick"
    /\ UNCHANGED <<serverVars, themeVars, currentValues, previousValues, hasChanges, timer,
                   intervals>>

\* the interval fires: checkForChanges
TimerFires ==
    /\ intervals # <<>>
    /\ LET c == checkForChanges(hour, previousValues)
       IN  /\ currentValues' = c.currentValues
           /\ previousValues' = c.previousValues
           /\ hasChanges' = c.hasChanges
    /\ lastEvent' = "timerCheck"
    /\ UNCHANGED <<serverVars, themeVars, hour, timer, intervals>>

\* handleThemeSettingsChange({autoGenerate}): the checkbox of the theme panel
ToggleAutoGenerate ==
    LET ts == [themeSettings EXCEPT !.autoGenerate = ~themeSettings.autoGenerate]
    IN  /\ themeSettings' = ts
        /\ RestartMonitor(ts)
        /\ lastEvent' = "toggleAutoGenerate"
        /\ unreadable' = unreadable \ {"settings"}
        /\ UNCHANGED <<serverVars, settings, proposedTheme, activeTheme, favoriteTheme,
                       isGeneratingTheme, pending, proposalVars, document, storeActive,
                       storeFavorite, previewBase, previewBaseLink, hour>>

\* handleThemeSettingsChange({checkFrequency}): the select of the theme panel,
\* shown while autoGenerate is on
SetCheckFrequency ==
    \E f \in CheckFrequencies :
        /\ themeSettings.autoGenerate
        /\ f # themeSettings.checkFrequency
        /\ LET ts == [themeSettings EXCEPT !.checkFrequency = f]
           IN  /\ themeSettings' = ts
               /\ RestartMonitor(ts)
        /\ lastEvent' = "setCheckFrequency"
        /\ unreadable' = unreadable \ {"settings"}
        /\ UNCHANGED <<serverVars, settings, proposedTheme, activeTheme, favoriteTheme,
                       isGeneratingTheme, pending, proposalVars, document, storeActive,
                       storeFavorite, previewBase, previewBaseLink, hour>>

NextMonitor ==
    \/ Tick
    \/ TimerFires
    \/ ToggleAutoGenerate
    \/ SetCheckFrequency
    \/ SelectModel
    \/ Reload

SpecMonitor == (\E h \in Hours : InitAt(h)) /\ [][NextMonitor]_vars

\* ------------------------------------------------ startup with damaged storage

\* the text of a slot of localStorage is replaced, outside the page, by text
\* JSON.parse throws on
DamageSlot ==
    /\ \E slot \in Slots : unreadable' = unreadable \cup {slot}
    /\ unreadable' # unreadable
    /\ lastEvent' = "storageDamaged"
    /\ UNCHANGED <<serverVars, appVars, proposalVars, document, storeActive,
                   storeFavorite, previewBase, previewBaseLink, monitorVars>>

NextStartup ==
    \/ SelectModel
    \/ SurpriseMe
    \/ ServeRequest
    \/ ReceiveResponse
    \/ Approve
    \/ SetCheckFrequency
    \/ DamageSlot
    \/ Reload

SpecStartup == Init /\ [][NextStartup]_vars

\* ------------------------------------------------ claims C1, C2

LowerText(s) == [i \in 1..Len(s) |-> Lower(s[i])]

\* the five tokens the specification's testable property names
NamedTokens == {
    <<"j","a","v","a","s","c","r","i","p","t",":">>,
    <<"u","r","l","(">>,
    <<"@","i","m","p","o","r","t">>,
    <<"e","x","p","r","e","s","s","i","o","n","(">>,
    <<"d","a","t","a",":">> }

ContainsNamedToken(s) == \E t \in NamedTokens : Includes(LowerText(s), t)

HasForbiddenError(out) == \E i \in 1..Len(out.errors) : out.errors[i].kind = "CSS contains forbidden pattern"

\* C1: every call of checkDangerousPatterns, sanitizeCSS or processCSSForTheme
\* on a text that contains javascript:, url(, @import, expression( or data:
\* throws the forbidden-pattern error, and every such call of validateCSS
\* returns valid = false with a forbidden-pattern error, whatever calls
\* were made before.
C1_DangerousInputRejected ==
    (lastCall.fn # "none" /\ ContainsNamedToken(lastCall.input)) =>
        IF lastCall.fn = "validateCSS"
        THEN ~lastCall.out.valid /\ HasForbiddenError(lastCall.out)
        ELSE lastCall.out.threw > 0

\* C2: the outcome of a sanitizer call depends on its input alone: it is the
\* outcome the same call has when it is the first call made after the module
\* is loaded.
C2_OutcomeIndependentOfHistory ==
    lastCall.fn # "none" =>
        lastCall.out = Observed(Apply(lastCall.fn, lastCall.input, ZeroIndex))

\* ------------------------------------------------ claims C3, C4

\* some DANGEROUS_PATTERNS entry occurs in the text
HasDangerousPattern(css) ==
    \E k \in 1..NumPatterns : RegExpTest(DANGEROUS_PATTERNS[k], css, 0).matched

\* the request passed the endpoint's validation and the model's reply parsed
ReachedSanitizer(x) ==
    /\ x.handled /\ ~x.body.malformed /\ x.body.signals.present
    /\ x.body.provider # "" /\ x.body.model # "" /\ x.body.signals.ids # {}
    /\ x.enabled /\ x.llm.ok
    /\ parseThemeResponse(x.llm.text).success

SecurityError == "CSS security check failed: CSS contains forbidden pattern"

\* C3: when the CSS block parsed out of the reply contains a dangerous
\* pattern, the endpoint answers 400, success = false, with the security
\* error, and never success nor the 'no valid theme properties' error.
C3_DangerousReplyIsSecurityFailure ==
    (ReachedSanitizer(exchange)
        /\ HasDangerousPattern(parseThemeResponse(exchange.llm.text).css)) =>
            /\ ~exchange.response.success
            /\ exchange.response.status = 400
            /\ exchange.response.error = SecurityError

\* the declarations of the text that are whitelisted and of the required shape
ValidDeclsOf(css) ==
    SelectSeq(parseCustomProperties(css),
              LAMBDA d : d.property \in ALLOWED_PROPERTIES
                         /\ PropertyValidator(d.property, d.value))

C5_DismissRestoresStyle ==
    lastEvent = "dismissed" => getAppliedThemeCSS(document) = previewBase

\* C6: once a proposal has been approved and has closed, the style element
\* holds the approved theme's CSS: no cleanup has reverted it.
C6_ApprovedCssStaysInjected ==
    lastEvent = "approved" =>
        getAppliedThemeCSS(document) = [present |-> TRUE, css |-> activeTheme.css]

C8_PreviewAndDismissKeepStore ==
    [][lastEvent' \in {"proposed", "dismissed"} =>
        UNCHANGED <<storeActive, storeFavorite>>]_vars

\* a candidate other than the persisted active theme was previewed and dismissed
C8_Witness ==
    /\ lastEvent = "dismissed"
    /\ storeActive.present /\ storeFavorite.present
    /\ previewBase.present

\* ------------------------------------------------ claims C9, C10

\* C9: from the click to the end of a generation that fails, no step changes
\* the style element, the fonts link, the proposed slot or the persisted
\* active and favorite slots.
C9_FailedGenerationChangesNothing ==
    [][lastEvent' \in {"surpriseMe", "serveRequest", "networkError", "generationFailed"} =>
        UNCHANGED <<document, proposedTheme, storeActive, storeFavorite>>]_vars

\* a generation failed while a theme with fonts was applied and a proposal open
C9_Witness ==
    /\ lastEvent = "generationFailed"
    /\ getAppliedThemeCSS(document).present /\ AppliedFontsLink(document).present
    /\ proposedTheme.present

\* C10: a monitor check that reports a significant change while autoGenerate
\* is on, a model is configured and no generation is running issues a
\* generation request.
C10_SignificantChangeStartsGeneration ==
    [][(lastEvent' \in {"timerCheck", "toggleAutoGenerate", "setCheckFrequency"}
            /\ themeSettings'.autoGenerate /\ hasChanges'
            /\ settings.provider # "" /\ settings.model # ""
            /\ ~isGeneratingTheme) =>
        (isGeneratingTheme' /\ Len(pending') = Len(pending) + 1)]_vars

\* ------------------------------------------- claims C11, C12, C13

\* C11: at most one generation request of the page is outstanding at any
\* time, and isGeneratingTheme is set exactly while one is: no trigger
\* starts a second request before the first one has ended.
C11_AtMostOneInFlight ==
    /\ Len(pending) <= 1
    /\ isGeneratingTheme <=> pending # <<>>

\* a request is outstanding while a proposal it could overwrite is open
C11_Witness ==
    /\ Len(pending) = 1 /\ pending[1].answered
    /\ isGeneratingTheme /\ proposedTheme.present

\* C12: a response that answers a request sent before the user dismissed
\* the open proposal, and that is delivered after the dismissal, is
\* discarded: it does not write the proposed slot.
C12_StaleResponseDiscarded ==
    [][(lastEvent = "dismissed" /\ Len(pending') < Len(pending)) =>
        UNCHANGED proposedTheme]_vars

CountById(doc, id) == Cardinality({ i \in 1..Len(doc) : doc[i].id = id })

\* C13: the document never holds more than one theme style element nor
\* more than one theme fonts link, whatever sequence of apply, preview,
\* revert, restore-favorite and reset led to it.
C13_AtMostOneThemeElement ==
    /\ CountById(document, THEME_STYLE_ID) <= 1
    /\ CountById(document, GOOGLE_FONTS_LINK_ID) <= 1

\* an approved theme's style element replaced one that stood before the
\* fonts link
C13_Witness ==
    /\ lastEvent = "approved"
    /\ Len(document) = 2
    /\ document[1].id = GOOGLE_FONTS_LINK_ID
    /\ document[2].id = THEME_STYLE_ID

\* ------------------------------------------- claims C14, C15, C16

\* the period the specification gives each hour of the day
PeriodTable ==
    [h \in 0..23 |->
        CASE h \in 6..11 -> "morning"
          [] h \in 12..14 -> "midday"
          [] h \in 15..17 -> "afternoon"
          [] h \in 18..20 -> "evening"
          [] OTHER -> "night"]

MonitorEvents == { "timerCheck", "toggleAutoGenerate", "setCheckFrequency" }

\* C14: a monitor check reports a significant change exactly when there is
\* no previous value or the period of the current hour differs from the
\* period stored by the previous check; the first check after the page has
\* loaded is significant, a check at hour 13 after one at hour 11 is
\* significant, a second check within hour 11 is not.
C14_SignificantIffPeriodChanged ==
    [][/\ (lastEvent' = "mount" /\ themeSettings'.autoGenerate) => hasChanges'
       /\ (lastEvent' \in MonitorEvents /\ themeSettings'.autoGenerate) =>
             /\ hasChanges' = (~previousValues.present
                                  \/ previousValues.period # PeriodTable[hour])
             /\ (previousValues.present /\ previousValues.hour = 11 /\ hour = 13)
                    => hasChanges'
             /\ (previousValues.present /\ previousValues.hour = 11 /\ hour = 11)
                    => ~hasChanges']_vars

\* the timer's check at hour 13 reported a change
C14_Witness ==
    /\ lastEvent = "timerCheck" /\ hasChanges
    /\ currentValues.hour = 13 /\ previousValues.hour = 13

\* C15: every value the time-of-day provider returns carries the period
\* the specification gives its hour: 6-11 morning, 12-14 midday, 15-17
\* afternoon, 18-20 evening, 21-23 and 0-5 night.
C15_PeriodOfEveryHour ==
    /\ currentValues.present
    /\ currentValues.hour \in Hours
    /\ currentValues.period = PeriodTable[currentValues.hour]
    /\ previousValues.present =>
          previousValues.period = PeriodTable[previousValues.hour]

\* a check read the provider at hour 21
C15_Witness ==
    /\ lastEvent = "timerCheck"
    /\ currentValues.hour = 21 /\ currentValues.period = "night"

\* C16: switching auto-generation off stops the timer and leaves the
\* monitor's current values, snapshot and hasChanges as they are, nothing
\* but a reload of the page changes them while it is off, and the check run
\* when it is switched on again compares against that snapshot.
C16_DisableKeepsMonitorState ==
    [][/\ (lastEvent' = "toggleAutoGenerate" /\ ~themeSettings'.autoGenerate) =>
             /\ ~timer'.active
             /\ UNCHANGED <<currentValues, previousValues, hasChanges>>
       /\ (~themeSettings.autoGenerate /\ ~themeSettings'.autoGenerate
              /\ lastEvent' # "mount") =>
             UNCHANGED <<currentValues, previousValues, hasChanges, timer>>
       /\ (lastEvent' = "toggleAutoGenerate" /\ themeSettings'.autoGenerate
              /\ previousValues.present) =>
             /\ timer'.active
             /\ hasChanges' = (previousValues.period # PeriodTable[hour])]_vars

\* auto-generation was switched on again within the period of the snapshot
C16_Witness ==
    /\ lastEvent = "toggleAutoGenerate"
    /\ themeSettings.autoGenerate /\ timer.active
    /\ ~hasChanges

\* ------------------------------------- claims C17, C18, C19, C20

MissingFieldsError == "Missing required fields: provider and model"
NoSignalError == "At least one signal is required"
ProviderDisabledError == "Provider is not enabled or configured"

\* C17: a request whose body is JSON gets HTTP 400 with the error of the
\* first check it fails, in the order provider and model present, at least
\* one signal present (the signals field absent or an empty map fails it),
\* provider enabled; a request that passes all three gets none of the three
\* errors.
C17_ValidationOrder ==
    (exchange.handled /\ ~exchange.body.malformed) =>
        IF exchange.body.provider = "" \/ exchange.body.model = ""
        THEN /\ exchange.response.status = 400
             /\ exchange.response.error = MissingFieldsError
        ELSE IF ~exchange.body.signals.present \/ exchange.body.signals.ids = {}
        THEN /\ exchange.response.status = 400
             /\ exchange.response.error = NoSignalError
        ELSE IF ~exchange.enabled
        THEN /\ exchange.response.status = 400
             /\ exchange.response.error = ProviderDisabledError
        ELSE exchange.response.error \notin
                 { MissingFieldsError, NoSignalError, ProviderDisabledError }

\* the request passed the endpoint's validation and the model replied
ReachedParser(x) ==
    /\ x.handled /\ ~x.body.malformed /\ x.body.signals.present
    /\ x.body.provider # "" /\ x.body.model # "" /\ x.body.signals.ids # {}
    /\ x.enabled /\ x.llm.ok

NoBlockError == "No CSS block found in response"
NoMarkerError == "CSS does not contain :root or custom properties"

\* the text between the first fence that starts with open and the next fence
\* holds neither :root nor --
LacksMarkers(text, open) ==
    /\ ~Includes(Trim(FencedBlock(text, open).text), RootWord)
    /\ ~Includes(Trim(FencedBlock(text, open).text), DashDash)

\* the parser's message for a reply, when a fenced block is one whose fence
\* starts with open ("" when the reply is acceptable)
ExpectedParseError(text, open) ==
    IF ~FencedBlock(text, open).found THEN NoBlockError
    ELSE IF LacksMarkers(text, open) THEN NoMarkerError
    ELSE ""

\* a request that reaches the parser with a reply that has no fenced block,
\* or whose block lacks both markers, is answered 400 with the parser's
\* message, without lint results and without a call of the sanitizer (the
\* patterns' lastIndex values stay as they are); every other reply gets
\* neither message
ParseFailureContract(open) ==
    (exchange' # exchange /\ ReachedParser(exchange')) =>
        IF ExpectedParseError(exchange'.llm.text, open) # ""
        THEN /\ ~ParsedReply(exchange'.llm.text).success
             /\ exchange'.response.status = 400
             /\ ~exchange'.response.success
             /\ exchange'.response.error = ExpectedParseError(exchange'.llm.text, open)
             /\ exchange'.response.lintResults = NoLint
             /\ lastIndex' = lastIndex
        ELSE /\ ParsedReply(exchange'.llm.text).success
             /\ exchange'.response.error \notin { NoBlockError, NoMarkerError }

\* C18 as stated: parseThemeResponse fails exactly when the reply has no
\* fenced block, whatever its tag, or the block holds neither :root nor --,
\* and the endpoint then answers 400 with the parser's message without
\* calling the sanitizer.
C18_ParseFailureAnyFence == [][ParseFailureContract(Fence)]_vars

\* C18, amended: parseThemeResponse fails exactly when the reply has no
\* fenced block opened with the css tag, or that block holds neither :root
\* nor --, and the endpoint then answers 400 with the parser's message
\* without calling the sanitizer.
C18_ParseFailureCssFence == [][ParseFailureContract(CssFenceOpen)]_vars

\* a reply whose css block lacks both markers was refused while the
\* patterns held the lastIndex values of an earlier request
C18_Witness ==
    /\ ReachedParser(exchange)
    /\ exchange.response.error = NoMarkerError
    /\ lastIndex # ZeroIndex

EmptyResultError == "Generated CSS had no valid theme properties"

\* C19: a reply whose CSS has no dangerous pattern and no declaration that
\* is whitelisted and well-shaped is answered 400 with an error that is
\* neither a parser message nor the security error, together with the lint
\* results; a success response never carries an empty stylesheet.
C19_EmptyResultIsDistinctFailure ==
    /\ (ReachedSanitizer(exchange)
          /\ ~HasDangerousPattern(ParsedReply(exchange.llm.text).css)
          /\ ValidDeclsOf(ParsedReply(exchange.llm.text).css) = <<>>) =>
            /\ exchange.response.status = 400
            /\ ~exchange.response.success
            /\ exchange.response.error = EmptyResultError
            /\ exchange.response.error \notin
                  { NoBlockError, NoMarkerError, "Failed to parse LLM response",
                    SecurityError }
            /\ exchange.response.lintResults.present
            /\ exchange.response.lintResults.warnings # <<>>
    /\ (exchange.handled /\ exchange.response.success) =>
            Trim(exchange.response.theme.css) # <<>>

\* a reply whose only declaration is not whitelisted was refused
C19_Witness ==
    /\ ReachedSanitizer(exchange)
    /\ ~HasDangerousPattern(ParsedReply(exchange.llm.text).css)
    /\ Len(parseCustomProperties(ParsedReply(exchange.llm.text).css)) > 0
    /\ exchange.response.error = EmptyResultError

\* C20: every request gets a structured answer: success with a theme and
\* status 200, or success = false with a non-empty error and status 400 or
\* 500.  A body that is not JSON and a failed LLM call are answered 500
\* with the message of the error, and a failed LLM call never ends in a
\* success.
C20_EveryErrorIsStructuredFailure ==
    exchange.handled =>
        /\ exchange.response.status \in {200, 400, 500}
        /\ exchange.response.success <=> exchange.response.status = 200
        /\ exchange.response.success <=> exchange.response.theme.present
        /\ ~exchange.response.success => exchange.response.error # ""
        /\ exchange.body.malformed =>
              /\ exchange.response.status = 500
              /\ exchange.response.error = "Unexpected token in JSON"
        /\ (~exchange.llm.ok /\ ~exchange.body.malformed) =>
              /\ ~exchange.response.success
              /\ exchange.response.error \in
                    { "LLM call failed", "Cannot convert undefined or null to object",
                      MissingFieldsError, NoSignalError, ProviderDisabledError }

\* the LLM call of a valid request failed
C20_Witness ==
    /\ exchange.handled /\ ~exchange.body.malformed /\ exchange.body.signals.present
    /\ exchange.body.provider # "" /\ exchange.body.model # ""
    /\ exchange.body.signals.ids # {} /\ exchange.enabled
    /\ ~exchange.llm.ok
    /\ exchange.response.status = 500
    /\ exchange.response.error = "LLM call failed"

\* ------------------------------------------------------------- C21

\* the message of a property outside the whitelist
NotWhitelisted(property) == Msg("not in the whitelist", 0, property, <<>>)

\* the declarations of a stylesheet whose property is outside the whitelist
UnlistedDecls(css) ==
    SelectSeq(parseCustomProperties(css), LAMBDA d : d.property \notin ALLOWED_PROPERTIES)

\* every declaration of decls has an entry in sanitized carrying the
\* 'not in the whitelist' reason
RecordedAsUnlisted(decls, sanitized) ==
    \A i \in 1..Len(decls) :
        \E j \in 1..Len(sanitized) :
            sanitized[j] = [property |-> decls[i].property, original |-> decls[i].value,
                            reason |-> NotWhitelisted(decls[i].property)]

\* C21: for a property outside the whitelist validateProperty answers 'not in
\* the whitelist' whatever the value is, never 'Invalid value', and a
\* sanitizeCSS call that returns records that reason for each such declaration.
C21_WhitelistBeforeShape ==
    /\ (lastValidation.called /\ lastValidation.property \notin ALLOWED_PROPERTIES)
          => /\ lastValidation.result = NotWhitelisted(lastValidation.property)
             /\ lastValidation.result.kind # "Invalid value"
    /\ (lastCall.fn = "sanitizeCSS" /\ lastCall.out.threw = 0)
          => RecordedAsUnlisted(UnlistedDecls(lastCall.input), lastCall.out.sanitizedValues)

\* a property outside the whitelist was validated with a value no validator accepts
C21_Witness ==
    /\ lastValidation.called
    /\ lastValidation.property \notin ALLOWED_PROPERTIES
    /\ ~colorValidator(lastValidation.value)
    /\ ~sizeValidator(lastValidation.value)
    /\ ~fontWeightValidator(lastValidation.value)
    /\ ~fontFamilyValidator(lastValidation.value)

\* ------------------------------------------------------------- C22

\* #RGB, #RRGGBB or #RRGGBBAA: '#' followed by 3, 6 or 8 hex digits
IsHexColorForm(v) ==
    \E n \in {3, 6, 8} :
        /\ Len(v) = n + 1
        /\ Head(v) = "#"
        /\ Tail(v) \in [1..n -> HexDigitSet]

\* C22: on a whitelisted color property validateProperty returns null for a
\* value of the form #RGB, #RRGGBB or #RRGGBBAA and the 'Invalid value' error
\* for every other value.
C22_HexColorsOnly ==
    (lastValidation.called /\ lastValidation.property \in THEMEABLE_COLORS)
        => lastValidation.result =
              IF IsHexColorForm(lastValidation.value)
              THEN NoError
              ELSE Msg("Invalid value", 0, lastValidation.property, lastValidation.value)

\* a color property was validated with '#' and hex digits of another length
C22_Witness ==
    /\ lastValidation.called
    /\ lastValidation.property \in THEMEABLE_COLORS
    /\ lastValidation.value = <<"#","a","b","c","d">>
    /\ lastValidation.result.kind = "Invalid value"

\* ------------------------------------------------------------- C23

\* sanitizing css, with the patterns in state idx, returns css itself and
\* removes nothing
SanitizesToItself(css, idx) ==
    /\ sanitizeCSS(css, idx).threw = 0
    /\ sanitizeCSS(css, idx).css = css
    /\ sanitizeCSS(css, idx).removedProperties = <<>>

\* C23: whenever sanitizeCSS has returned a non-empty stylesheet, sanitizing
\* that stylesheet again returns it byte for byte and removes no property.
C23_SanitizeIdempotent ==
    (lastCall.fn = "sanitizeCSS" /\ lastCall.out.threw = 0 /\ lastCall.out.css # <<>>)
        => SanitizesToItself(lastCall.out.css, lastIndex)

\* the same, for input in which no dangerous pattern occurs
C23_SanitizeIdempotentOnCleanInput ==
    (/\ lastCall.fn = "sanitizeCSS" /\ lastCall.out.threw = 0 /\ lastCall.out.css # <<>>
     /\ ~HasDangerousPattern(lastCall.input))
        => SanitizesToItself(lastCall.out.css, lastIndex)

\* sanitizeCSS returned a stylesheet for input without dangerous patterns
C23_Witness ==
    /\ lastCall.fn = "sanitizeCSS" /\ lastCall.out.threw = 0 /\ lastCall.out.css # <<>>
    /\ ~HasDangerousPattern(lastCall.input)

\* ------------------------------------------------------------- C24

C25_FontsOnlyWhenEnabled ==
    /\ \A i \in 1..Len(pending) :
          (/\ pending[i].answered
           /\ ~pending[i].body.useGoogleFonts
           /\ HasTheme(pending[i].response))
              => pending[i].response.theme.fonts = <<>>
    /\ ~themeSettings.useGoogleFonts
          => /\ proposedTheme.present => proposedTheme.fonts = <<>>
             /\ ~AppliedFontsLink(document).present

\* ------------------------------------------------------------- C26

\* the fonts array of the JSON document a reply carries (<<>> if none)
FontsSent(text) ==
    LET at == { i \in 1..Len(text) : text[i] \in JsonDocs }
    IN  IF at = {} THEN <<>> ELSE ParsedFonts(text[CHOOSE i \in at : TRUE])

\* a letter, a digit, white space or a hyphen
SafeFamilyChar(c) == IsLetter(c) \/ IsDigit(c) \/ IsSpace(c) \/ c = "-"

\* entry out is what remains of entry sent: the family with everything but
\* letters, digits, space and hyphen stripped, and the weights that are in
\* [100,900] and multiples of 100, in their order
RemainsOf(out, sent) ==
    /\ out.family = SelectSeq(sent.family, SafeFamilyChar)
    /\ out.weights = SelectSeq(sent.weights,
                               LAMBDA w : w >= 100 /\ w <= 900 /\ w % 100 = 0)

FontListWithinLimits(fonts, sent) ==
    /\ Len(fonts) <= 2
    /\ \A i \in 1..Len(fonts) :
          /\ Len(fonts[i].family) >= 1 /\ Len(fonts[i].family) <= 99
          /\ \A k \in 1..Len(fonts[i].family) : SafeFamilyChar(fonts[i].family[k])
          /\ \A k \in 1..Len(fonts[i].weights) :
                /\ fonts[i].weights[k] \in 100..900
                /\ fonts[i].weights[k] % 100 = 0
          /\ \E j \in 1..Len(sent) : RemainsOf(fonts[i], sent[j])

CssTag == <<"c","s","s">>

\* The first fenced block of a reply: with tagged, the first block opened by
\* a fence that declares the css tag; without, the first block opened by any
\* fence, a css tag after the fence not being part of the block.  The block
\* ends at the next fence; body is its text, trimmed.
FirstBlock(text, tagged) ==
    LET o == FindSeq(text, IF tagged THEN CssFenceOpen ELSE Fence, 1)
        hasTag == o # 0 /\ SubSeq(text, o + 3, o + 5) = CssTag
        start == IF hasTag THEN o + 6 ELSE o + 3
        c == IF o = 0 THEN 0 ELSE FindSeq(text, Fence, start)
    IN  IF o = 0 \/ c = 0
        THEN [found |-> FALSE, body |-> <<>>]
        ELSE [found |-> TRUE, body |-> Trim(SubSeq(text, start, c - 1))]

HoldsRule(body) == Includes(body, RootWord) \/ Includes(body, DashDash)

\* the parser takes blk as the candidate stylesheet: a reply without such a
\* block fails with 'No CSS block found', and a block that holds a :root
\* rule or a custom property is parsed successfully and is the css returned
TakenAsCandidate(x, blk, parsed) ==
    IF ~blk.found
    THEN ~parsed.success /\ x.response.error = NoBlockError
    ELSE HoldsRule(blk.body) =>
            /\ parsed.success
            /\ parsed.css = blk.body
            /\ x.response.error \notin { NoBlockError, NoMarkerError }

\* C27 as stated: the candidate stylesheet is the first fenced block of the
\* reply whether or not its fence declares the css tag, so that a reply
\* whose first block is untagged and holds a :root rule parses.
C27_FirstBlockAnyTag ==
    ReachedParser(exchange)
        => TakenAsCandidate(exchange, FirstBlock(exchange.llm.text, FALSE),
                            ParsedReply(exchange.llm.text))

\* C27, amended: the candidate stylesheet is the first fenced block whose
\* fence declares the css tag; blocks before it are skipped, and a reply
\* without a css block fails with 'No CSS block found in response'.
C27_FirstCssBlock ==
    ReachedParser(exchange)
        => TakenAsCandidate(exchange, FirstBlock(exchange.llm.text, TRUE),
                            ParsedReply(exchange.llm.text))

\* a reply whose first fenced block is untagged prose and whose second block
\* is a css block was parsed and answered with a theme
C27_Witness ==
    /\ ReachedParser(exchange)
    /\ exchange.llm.text = ReplyProseThenCss
    /\ exchange.response.success

\* ------------------------------------------------------------- C28

\* the step runs checkForChanges: the interval fired, or the monitoring
\* effect restarted with monitoring enabled
ChecksNow ==
    \/ lastEvent' = "timerCheck"
    \/ lastEvent' \in {"toggleAutoGenerate", "setCheckFrequency"} /\ themeSettings'.autoGenerate

\* C28: a check reads the signal, makes the value read both the current
\* value and the whole snapshot, whether or not a change is reported, and
\* reports a change iff the value read differs significantly from the
\* snapshot the previous check stored (or there is none).
C28_CheckOverwritesSnapshot ==
    [][ChecksNow =>
          /\ currentValues' = getValue(hour)
          /\ previousValues' = getValue(hour)
          /\ hasChanges' = (~previousValues.present
                              \/ previousValues.period # getValue(hour).period)]_vars

\* the interval fired, the check reported no change, and the snapshot holds
\* the value read at this hour
C28_Witness ==
    /\ lastEvent = "timerCheck"
    /\ ~hasChanges
    /\ previousValues = getValue(hour)

\* ------------------------------------------------------------- C29

\* the whitelist or shape verdict on a declaration
Rejected(d) == validateProperty(d.property, d.value) # NoError

\* the lines "  property: value;" of the declarations, each ended by a newline
RECURSIVE IndentedLines(_)
IndentedLines(ds) ==
    IF ds = <<>> THEN <<>>
    ELSE <<" ", " ">> \o Head(ds).property \o <<":", " ">> \o Head(ds).value
         \o <<";", "\n">> \o IndentedLines(Tail(ds))

\* one :root block around the lines of the declarations; the empty string
\* when there is none
SingleRootBlock(ds) ==
    IF ds = <<>> THEN <<>>
    ELSE <<":","r","o","o","t"," ","{","\n">> \o IndentedLines(ds) \o <<"}">>

\* out is the partition of the declarations: those kept are the block, in
\* input order; the others are listed, in input order, by property and with
\* property, original value and rejection reason
PartitionOf(decls, out) ==
    LET kept == SelectSeq(decls, LAMBDA d : ~Rejected(d))
        dropped == SelectSeq(decls, Rejected)
    IN  /\ out.threw = 0
        /\ out.css = SingleRootBlock(kept)
        /\ Len(out.removedProperties) = Len(dropped)
        /\ Len(out.sanitizedValues) = Len(dropped)
        /\ \A i \in 1..Len(dropped) :
              /\ out.removedProperties[i] = dropped[i].property
              /\ out.sanitizedValues[i].property = dropped[i].property
              /\ out.sanitizedValues[i].original = dropped[i].value
              /\ out.sanitizedValues[i].reason.kind \in {"not in the whitelist", "Invalid value"}
              /\ out.sanitizedValues[i].reason.property = dropped[i].property

\* C29: for input without dangerous patterns sanitizeCSS returns, and its
\* result partitions the parsed declarations: the valid ones are the lines,
\* indented by two spaces and in input order, of one :root block (the empty
\* string when there is none), and every other one is listed in
\* removedProperties and in sanitizedValues with its property, original
\* value and rejection reason.
C29_SanitizePartitions ==
    (lastCall.fn = "sanitizeCSS" /\ ~HasDangerousPattern(lastCall.input))
        => PartitionOf(parseCustomProperties(lastCall.input), lastCall.out)

\* sanitizeCSS kept two declarations and removed the one between them
C29_Witness ==
    /\ lastCall.fn = "sanitizeCSS"
    /\ lastCall.input = DeclValid \o <<" ">> \o DeclUnknown \o <<" ">> \o DeclSize
    /\ lastCall.out.css # <<>>
    /\ Len(lastCall.out.removedProperties) = 1

\* ------------------------------------------------------------- C30

Kinds(msgs) == { msgs[i].kind : i \in 1..Len(msgs) }

BracesError == "Unbalanced braces in CSS"
SingleQuoteError == "Unclosed single quote in CSS"
DoubleQuoteError == "Unclosed double quote in CSS"
NoPropertiesWarning == "No valid CSS custom properties found"
ForbiddenError == "CSS contains forbidden pattern"

Occurrences(css, c) == Len(SelectSeq(css, LAMBDA x : x = c))

\* the structural findings on css are exactly the errors, and the findings
\* on its declarations are exactly the warnings
StructureIsErrorRestIsWarning(css, decls, out) ==
    /\ (BracesError \in Kinds(out.errors)) = (Occurrences(css, "{") # Occurrences(css, "}"))
    /\ (SingleQuoteError \in Kinds(out.errors)) = (Occurrences(css, "'") % 2 = 1)
    /\ (DoubleQuoteError \in Kinds(out.errors)) = (Occurrences(css, "\"") % 2 = 1)
    /\ Kinds(out.errors) \subseteq { BracesError, SingleQuoteError, DoubleQuoteError }
    /\ (NoPropertiesWarning \in Kinds(out.warnings)) = (decls = <<>>)
    /\ \A i \in 1..Len(decls) :
          validateProperty(decls[i].property, decls[i].value) # NoError
             => \E j \in 1..Len(out.warnings) :
                   out.warnings[j] = validateProperty(decls[i].property, decls[i].value)
    /\ Kinds(out.warnings) \subseteq
          { NoPropertiesWarning, "not in the whitelist", "Invalid value" }

SanitizedNonEmpty(x) ==
    /\ ReachedSanitizer(x)
    /\ x.response.error # SecurityError
    /\ ValidDeclsOf(ParsedReply(x.llm.text).css) # <<>>

\* C31: whenever the sanitizer returns a non-empty stylesheet the endpoint
\* answers 200 with success, that stylesheet and the lint results, whatever
\* the lint results say: their errors and warnings block nothing.
C31_DiagnosticsNeverBlock ==
    SanitizedNonEmpty(exchange) =>
        /\ exchange.response.status = 200
        /\ exchange.response.success
        /\ exchange.response.theme.present
        /\ exchange.response.theme.css # <<>>
        /\ exchange.response.lintResults.present

\* a success whose lint results are invalid and carry a warning
C31_Witness ==
    /\ SanitizedNonEmpty(exchange)
    /\ exchange.response.success
    /\ ~exchange.response.lintResults.valid
    /\ exchange.response.lintResults.errors # <<>>
    /\ exchange.response.lintResults.warnings # <<>>

\* ------------------------------------------------------------- C32

\* a decimal number: digits with at most one '.', at least one digit
IsDecimalNumber(s) ==
    /\ \A i \in 1..Len(s) : IsDigit(s[i]) \/ s[i] = "."
    /\ \E i \in 1..Len(s) : IsDigit(s[i])
    /\ Cardinality({ i \in 1..Len(s) : s[i] = "." }) <= 1

SizeUnits == { <<"r","e","m">>, <<"e","m">>, <<"p","x">> }

\* one decimal number immediately followed by rem, em or px
IsSizeForm(v) ==
    \E u \in SizeUnits :
        /\ Len(v) > Len(u)
        /\ SubSeq(v, Len(v) - Len(u) + 1, Len(v)) = u
        /\ IsDecimalNumber(SubSeq(v, 1, Len(v) - Len(u)))

\* C32: on a whitelisted font-size property validateProperty returns null
\* for a value that is one decimal number immediately followed by rem, em or
\* px, and the 'Invalid value' error for every other value.
C32_SizeIsNumberWithUnit ==
    (lastValidation.called /\ lastValidation.property \in FontSizeProps)
        => lastValidation.result =
              IF IsSizeForm(lastValidation.value)
              THEN NoError
              ELSE Msg("Invalid value", 0, lastValidation.property, lastValidation.value)

\* ------------------------------------------------------------- C33

\* C33: after a dismissal the fonts link is what it was when the proposal
\* was opened: the same href, or absent if it was absent.
C33_DismissRestoresFontsLink ==
    lastEvent = "dismissed" => AppliedFontsLink(document) = previewBaseLink

\* ------------------------------------------------------------- C34

\* the fonts link a theme calls for: none when it has no fonts
FontsLinkOf(theme) ==
    IF theme.fonts = <<>> THEN NoLink
    ELSE [present |-> TRUE, href |-> buildGoogleFontsUrl(theme.fonts)]

\* C34: right after an approval, a restore of the favorite or a startup
\* that found an Active theme, the fonts link is the one the Active theme
\* calls for: its URL when the theme has fonts, no link when it has none.
C34_FontsLinkFollowsActiveTheme ==
    (lastEvent \in {"approved", "restoreFavorite", "mount"} /\ activeTheme.present)
        => AppliedFontsLink(document) = FontsLinkOf(activeTheme)

\* ------------------------------------------------------------- C35

\* C35: a reset leaves neither the theme style element nor the fonts link
\* in the document, clears the Active theme and its persisted slot, and
\* changes neither the Favorite slot nor the theme settings.
C35_ResetReturnsToDefault ==
    [][lastEvent' = "resetTheme" =>
          /\ ~getAppliedThemeCSS(document').present
          /\ ~AppliedFontsLink(document').present
          /\ CountById(document', THEME_STYLE_ID) = 0
          /\ CountById(document', GOOGLE_FONTS_LINK_ID) = 0
          /\ ~activeTheme'.present
          /\ ~storeActive'.present
          /\ UNCHANGED <<storeFavorite, favoriteTheme, themeSettings>>]_vars

\* a reset was made while a favorite is persisted
C35_Witness ==
    /\ lastEvent = "resetTheme"
    /\ document = EmptyDocument
    /\ ~storeActive.present
    /\ storeFavorite.present

\* ------------------------------------------------ C36

\* what safeGetItem hands to the page for the theme slots and the settings slot
ReadableActive == IF "active" \in unreadable THEN NoTheme ELSE storeActive
ReadableFavorite == IF "favorite" \in unreadable THEN NoTheme ELSE storeFavorite
ReadableSettings == IF "settings" \in unreadable THEN defaultThemeSettings ELSE themeSettings

\* C36: when the page starts, a persisted Active theme that is present and
\* readable is applied to the document; a missing or unreadable Active,
\* Favorite or theme-settings slot counts as absent: the page shows Default,
\* has no favorite, uses the default theme settings, and the slots themselves
\* are left as they were.
C36_StartupReadsStorageSafely ==
    [][lastEvent' = "mount" =>
        /\ activeTheme' = ReadableActive
        /\ favoriteTheme' = ReadableFavorite
        /\ themeSettings' = ReadableSettings
        /\ document' = IF ReadableActive.present
                       THEN applyTheme(EmptyDocument, ReadableActive)
                       ELSE EmptyDocument
        /\ ReadableActive.present =>
               getAppliedThemeCSS(document') =
                   [present |-> TRUE, css |-> ReadableActive.css]
        /\ ~ReadableActive.present =>
               /\ getAppliedThemeCSS(document') = NoStyle
               /\ AppliedFontsLink(document') = NoLink
        /\ UNCHANGED storeVars]_vars

\* the page has started with all three slots unreadable while a theme is
\* stored as Active and as Favorite: it shows Default with the default settings
C36_Witness ==
    /\ lastEvent = "mount"
    /\ unreadable = Slots
    /\ storeActive.present
    /\ storeFavorite.present
    /\ ~activeTheme.present
    /\ ~favoriteTheme.present
    /\ themeSettings = defaultThemeSettings
    /\ getAppliedThemeCSS(document) = NoStyle

\* ------------------------------------------------ C37

\* the theme style element holds the css of the persisted Active theme, and
\* is absent when none is persisted
ShowsPersistedActive ==
    getAppliedThemeCSS(document) =
        IF storeActive.present THEN [present |-> TRUE, css |-> storeActive.css]
        ELSE NoStyle

\* C37: whenever no proposal is pending, the css in the theme style element
\* is the css of the persisted Active theme, or the element is absent when no
\* Active theme is persisted.
C37_NoProposalShowsActive == ~proposedTheme.present => ShowsPersistedActive

\* ------------------------------------------------ C38

\* C38: whenever processCSSForTheme returns normally, its validation result
\* holds no forbidden-pattern error: the validate-only pass and the sanitize
\* pass agree on whether the input is dangerous.
C38_PassesAgreeOnDanger ==
    (lastCall.fn = "processCSSForTheme" /\ lastCall.out.threw = 0) =>
        ForbiddenError \notin Kinds(lastCall.out.errors)

\* ------------------------------------------------ C39

\* provider and model are both chosen
Configured == settings.provider # "" /\ settings.model # ""

\* C39: a generation request that starts sets isGeneratingTheme; the flag is
\* cleared whenever a request ends, with a theme, with a failure response or
\* with a failed fetch; a request not started because provider or model is
\* missing leaves the flag as it was, which is cleared.
C39_FlagFollowsRequest ==
    [][/\ (lastEvent' = "surpriseMe" /\ Configured) =>
            /\ isGeneratingTheme'
            /\ Len(pending') = Len(pending) + 1
       /\ (lastEvent' = "surpriseMe" /\ ~Configured) =>
            /\ ~isGeneratingTheme'
            /\ UNCHANGED <<isGeneratingTheme, pending>>
       /\ Len(pending') < Len(pending) => ~isGeneratingTheme']_vars

\* a request has ended in a failure and the flag is cleared with no request
\* left in flight
C39_Witness ==
    /\ lastEvent = "generationFailed"
    /\ pending = <<>>
    /\ ~isGeneratingTheme

\* ------------------------------------------------ C40

\* C40: while auto-generation is enabled the browser holds exactly one
\* recurring check timer, with the interval of the current checkFrequency
\* (5, 15 or 30 minutes), and it is the one the monitoring effect will clear;
\* while auto-generation is disabled it holds none.
C40_OneTimerWhenEnabled ==
    IF themeSettings.autoGenerate
    THEN /\ intervals = <<CHECK_INTERVALS[themeSettings.checkFrequency]>>
         /\ intervals[1] \in {5, 15, 30}
         /\ timer = [active |-> TRUE, minutes |-> intervals[1]]
    ELSE /\ intervals = <<>>
         /\ timer = NoTimer

\* the frequency was changed while auto-generation is on, to one other than
\* the default: one timer runs, with the new interval
C40_Witness ==
    /\ lastEvent = "setCheckFrequency"
    /\ themeSettings.autoGenerate
    /\ themeSettings.checkFrequency # defaultThemeSettings.checkFrequency
    /\ Len(intervals) = 1
    /\ intervals[1] # CHECK_INTERVALS[defaultThemeSettings.checkFrequency]

====
